---- MODULE Spec2Model ----
(***************************************************************************)
(* ServerModel (src/server_model.py): a FIFO queue of RequestEvent served  *)
(* with a per-step cost capacity, shared by several threads.               *)
(*                                                                         *)
(* Numbers: costs, capacities, dt and timestamps are integers; a load or   *)
(* an average latency is an exact fraction [n, d] in lowest terms with     *)
(* d > 0 (the float rounding of the Python code is not modelled).          *)
(* The operations that take self.lock are split at the statements of       *)
(* their critical section; get_state, which takes no lock, is split at its *)
(* single read of self.current_load.                                       *)
(*                                                                         *)
(* run_scenario (src/batch_run.py) is a second specification, DriverSpec:  *)
(* one thread that runs a scenario on a queue of its own, twice, each call *)
(* on the queue being one step.                                            *)
(*                                                                         *)
(* Attacker (src/attack_sim.py) is AttackSpec: start_attack split at the   *)
(* statements of its loop, with stop_attack and generate_traffic called    *)
(* from another thread; TrafficSpec is the union of DriverSpec and         *)
(* AttackSpec, for statements about both traffic generators.               *)
(*                                                                         *)
(* The interface (src/Interface.py) is GuiSpec: two clicks, each starting  *)
(* a thread that stores its entries in the module constants of             *)
(* src/simulate_and_plot.py and then runs run_simulation, split at each    *)
(* read of those constants.  Its network-attack loop run_mitm is MitmSpec:  *)
(* two threads on the loop, which share the flag arpspoof_running.         *)
(*                                                                         *)
(* WindowSpec is ServerModel again, called one whole call at a time on a   *)
(* queue that has up to 101 latency samples on record, for the average     *)
(* over the latest 100 of them.                                            *)
(***************************************************************************)
EXTENDS Integers, Sequences, FiniteSets, TLC

\* ------------------------------------------------------ bound and inputs
MaxReq == 2      \* requests enqueued over a run

Threads == {1, 2}
\* constructor arguments <<processing_capacity_per_sec, warning_threshold,
\* overload_threshold>>: the defaults 70/90, the 1/50/80 of the tests, and
\* values the constructor accepts as well (capacity <= 0, thresholds
\* swapped, an overload threshold above the clamp of the load)
Configs == {<<-1, 70, 90>>, <<0, 70, 90>>, <<2, 70, 90>>,
            <<1, 50, 80>>, <<2, 90, 50>>, <<1, 50, 1100>>}
Costs == {-1, 1, 2, 10}                 \* RequestEvent.cost
Dts == {-1, 0, 1, 2}                    \* dt argument of step
Times == {0, 1}                         \* timestamps and values of time.time()

MAX_LOAD == 1000        \* clamp of current_load
LATENCY_WINDOW == 100   \* latencies[-100:]

NoThread == 0

VARIABLES
    capacity, warning_threshold, overload_threshold,   \* configuration
    queue, processed, lock, current_load, latencies, dropped,
    pc, loc,          \* per thread: position and local variables
    raised,           \* the exception of the call that has just ended, or "none"
    nextId,           \* history: identities handed to enqueued requests
    enqueued,         \* history: successful enqueues since the last reset
    served,           \* history: identities of the requests serviced, in order
    stableLoad,       \* history: current_load when the lock was last free
    scenario,         \* run_scenario: the cfg dict
    drv,              \* run_scenario: position and local variables
    rng,              \* run_scenario: the generator, [gen, pos]
    streams,          \* what each generator has drawn so far
    runNo,            \* which run of the scenario this is
    first,            \* history: what the first run returned
    attacker,         \* Attacker: the fields of the object
    atk,              \* start_attack: position, local variables, history
    returned,         \* history: the last direct call of generate_traffic
    sim,              \* simulate_and_plot: the module constants
    gui,              \* Interface: per thread, position and local variables
    arpspoof_running, \* Interface: the module global of the same name
    mitm,             \* run_mitm: per thread, position, local variables, history
    snap              \* the dict that the last whole call of step returned

cfgvars == <<capacity, warning_threshold, overload_threshold>>
objvars == <<queue, processed, lock, current_load, latencies, dropped>>
histvars == <<nextId, enqueued, served, stableLoad>>
drvvars == <<scenario, drv, rng, streams, runNo, first>>
atkvars == <<attacker, atk, returned>>
guivars == <<sim, gui>>
mitmvars == <<arpspoof_running, mitm>>
extvars == <<atkvars, guivars, mitmvars, snap>>
vars == <<cfgvars, objvars, pc, loc, raised, histvars, drvvars, extvars>>

\* ------------------------------------------------------------ arithmetic
Abs(x) == IF x < 0 THEN -x ELSE x

RECURSIVE GCD(_, _)
GCD(a, b) == IF b = 0 THEN a ELSE GCD(b, a % b)

\* the fraction n/d (d > 0) in lowest terms
Frac(n, d) ==
    LET g == GCD(Abs(n), d)
    IN  [n |-> n \div g, d |-> d \div g]

FracOf(k) == [n |-> k, d |-> 1]
FracLess(a, b) == a.n * b.d < b.n * a.d
FracLeq(a, b) == a.n * b.d <= b.n * a.d
FracMin(a, b) == IF FracLess(b, a) THEN b ELSE a   \* Python min(a, b)
FracMax(a, b) == IF FracLess(a, b) THEN b ELSE a   \* Python max(a, b)

RECURSIVE SumCost(_)
SumCost(q) == IF q = <<>> THEN 0 ELSE Head(q).cost + SumCost(Tail(q))

RECURSIVE SumSeq(_)
SumSeq(s) == IF s = <<>> THEN 0 ELSE Head(s) + SumSeq(Tail(s))

Min2(a, b) == IF a < b THEN a ELSE b
Max2(a, b) == IF a > b THEN a ELSE b

\* s[-k:]
LastK(s, k) == SubSeq(s, Max2(1, Len(s) - k + 1), Len(s))

\* ------------------------------------------------------ values and locals
RequestEvent(id, timestamp, cost) ==
    [id |-> id, timestamp |-> timestamp, cost |-> cost]

Idle == [op |-> "none"]

\* no scenario is run: the queue is used directly
NoScenario == [name |-> "none"]
NoRun == [pc |-> "off"]
NoRng == [gen |-> 0, pos |-> 0]
NoResult == [times |-> <<>>, loads |-> <<>>, qlens |-> <<>>, latencies |-> <<>>]
DriverOff ==
    /\ scenario = NoScenario
    /\ drv = NoRun
    /\ rng = NoRng
    /\ streams = <<>>
    /\ runNo = 0
    /\ first = NoResult

\* no Attacker is built and no simulation is started from the interface
NoAttacker == [attack_mode |-> "none"]
NoAttack == [pc |-> "off"]
NoCall ==
    [called |-> FALSE, elapsed_time |-> 0, raised |-> "none", count |-> 0,
     sampled |-> FALSE, lam |-> 0]
NoSim == [DT |-> 0]
NoGui == <<>>
AttackOff ==
    /\ attacker = NoAttacker
    /\ atk = NoAttack
    /\ returned = NoCall
GuiOff ==
    /\ sim = NoSim
    /\ gui = NoGui
\* no network attack is started (Interface line 13) and step is not called
\* as a whole
NoMitm == <<>>
NoSnap == [called |-> FALSE]
MitmOff ==
    /\ arpspoof_running = FALSE
    /\ mitm = NoMitm
    /\ snap = NoSnap

\* -------------------------------------------------------------- __init__
Init ==
    /\ \E cfg \in Configs :
          /\ capacity = cfg[1]
          /\ warning_threshold = cfg[2]
          /\ overload_threshold = cfg[3]
    /\ DriverOff
    /\ AttackOff
    /\ GuiOff
    /\ MitmOff
    /\ queue = <<>>
    /\ processed = 0
    /\ lock = NoThread
    /\ current_load = FracOf(0)
    /\ latencies = <<>>
    /\ dropped = 0
    /\ pc = [t \in Threads |-> "idle"]
    /\ loc = [t \in Threads |-> Idle]
    /\ raised = "none"
    /\ nextId = 1
    /\ enqueued = 0
    /\ served = <<>>
    /\ stableLoad = FracOf(0)

\* --------------------------------------------------------------- enqueue
\* enqueue(req) with req not a RequestEvent: TypeError before the lock
EnqueueBadType(t) ==
    /\ pc[t] = "idle"
    /\ raised' = "TypeError"
    /\ UNCHANGED <<extvars, drvvars, cfgvars, objvars, pc, loc, histvars>>

\* enqueue(req): type check passed, "with self.lock" entered
EnqueueCall(t, timestamp, cost) ==
    /\ pc[t] = "idle"
    /\ nextId <= MaxReq
    /\ lock = NoThread
    /\ lock' = t
    /\ pc' = [pc EXCEPT ![t] = "enqueue_append"]
    /\ loc' = [loc EXCEPT ![t] =
                  [op |-> "enqueue", req |-> RequestEvent(nextId, timestamp, cost)]]
    /\ nextId' = nextId + 1
    /\ raised' = "none"
    /\ UNCHANGED <<extvars, drvvars, cfgvars, queue, processed, current_load, latencies, dropped,
                   enqueued, served, stableLoad>>

\* variants of EnqueuePut: insert at the head; refuse when a request waits
EnqueuePutFront(q, req) == <<req>> \o q
EnqueuePutBounded(q, req) == IF Len(q) >= 1 THEN q ELSE Append(q, req)

\* variant of EnqueuePut: the request is stored with the opposite cost
EnqueuePutNegated(q, req) == Append(q, [req EXCEPT !.cost = 0 - @])

\* where enqueue puts the request
EnqueuePut(q, req) == Append(q, req)

\* self.queue.append(req), lock released, return
EnqueueAppend(t) ==
    /\ pc[t] = "enqueue_append"
    /\ queue' = EnqueuePut(queue, loc[t].req)
    /\ lock' = NoThread
    /\ pc' = [pc EXCEPT ![t] = "idle"]
    /\ loc' = [loc EXCEPT ![t] = Idle]
    /\ enqueued' = enqueued + 1
    /\ stableLoad' = current_load
    /\ raised' = "none"
    /\ UNCHANGED <<extvars, drvvars, cfgvars, processed, current_load, latencies, dropped,
                   nextId, served>>

\* ------------------------------------------------------------------ step
\* variant of ValidDt: only a negative dt is refused
ValidDtNonNegative(dt) == dt >= 0

\* the argument check of step: "if dt <= 0: raise ValueError"
ValidDt(dt) == ~ (dt <= 0)

\* step(dt) with dt <= 0: ValueError before the lock is taken
StepInvalid(t, dt) ==
    /\ pc[t] = "idle"
    /\ ~ ValidDt(dt)
    /\ raised' = "ValueError"
    /\ UNCHANGED <<extvars, drvvars, cfgvars, objvars, pc, loc, histvars>>

\* step(dt), dt > 0: "with self.lock" entered, locals initialised; time.time()
\* gives now (a wall clock: successive values need not increase)
StepCall(t, dt, now) ==
    /\ pc[t] = "idle"
    /\ ValidDt(dt)
    /\ lock = NoThread
    /\ lock' = t
    /\ pc' = [pc EXCEPT ![t] = "step_loop"]
    /\ loc' = [loc EXCEPT ![t] =
                  [op |-> "step", dt |-> dt,
                   capacity |-> capacity * dt,
                   processed_cost |-> 0,
                   processed_count |-> 0,
                   now |-> now,
                   pre_queue |-> queue,
                   pre_processed |-> processed,
                   pre_latencies |-> latencies]]
    /\ raised' = "none"
    /\ UNCHANGED <<extvars, drvvars, cfgvars, queue, processed, current_load, latencies, dropped,
                   histvars>>

\* variants of Fits: test before adding the cost; strict comparison
FitsLate(processed_cost, cost, cap) == processed_cost <= cap
FitsStrict(processed_cost, cost, cap) == processed_cost + cost < cap

\* variant of Fits: the first request of a step is serviced whatever it costs
FitsOrFirst(processed_cost, cost, cap) ==
    processed_cost = 0 \/ processed_cost + cost <= cap

\* the loop condition: the next request fits in what is left of the capacity
Fits(processed_cost, cost, cap) == processed_cost + cost <= cap

\* the request the loop looks at and takes, and what it leaves
StepNext(q) == Head(q)
StepRest(q) == Tail(q)

\* variant of Latency: the difference as it is
LatencySigned(now, req) == now - req.timestamp

\* max(0.0, now - req.timestamp)
Latency(now, req) == Max2(0, now - req.timestamp)

\* variants of RecordLatency: the sample is put in front; only the latest
\* sample is kept
RecordLatencyFront(lat, sample) == <<sample>> \o lat
RecordLatencyLatest(lat, sample) == <<sample>>

\* self.latencies.append(...)
RecordLatency(lat, sample) == Append(lat, sample)

\* variant of CountServiced: the counter goes down
CountServicedDown(n) == n - 1

\* self.processed += 1
CountServiced(n) == n + 1

\* one iteration of the while loop
StepService(t) ==
    /\ pc[t] = "step_loop"
    /\ queue # <<>>
    /\ Fits(loc[t].processed_cost, StepNext(queue).cost, loc[t].capacity)
    /\ LET req == StepNext(queue)
       IN  /\ queue' = StepRest(queue)
           /\ loc' = [loc EXCEPT ![t].processed_cost = @ + req.cost,
                                 ![t].processed_count = @ + 1]
           /\ processed' = CountServiced(processed)
           /\ latencies' = RecordLatency(latencies, Latency(loc[t].now, req))
           /\ served' = Append(served, req.id)
    /\ raised' = "none"
    /\ UNCHANGED <<extvars, drvvars, cfgvars, lock, current_load, dropped, pc,
                   nextId, enqueued, stableLoad>>

\* variants of LoadPercent: a ratio instead of a percentage; 100 whenever
\* the capacity is not positive
LoadPercentRatio(queued_cost, cap) ==
    IF cap > 0 THEN Frac(queued_cost, cap)
    ELSE IF queued_cost > 0 THEN FracOf(100) ELSE FracOf(0)
LoadPercentIdle(queued_cost, cap) ==
    IF cap > 0 THEN Frac(queued_cost * 100, cap) ELSE FracOf(100)

\* variant of LoadPercent: without capacity a waiting cost counts as the
\* largest load
LoadPercentFull(queued_cost, cap) ==
    IF cap > 0 THEN Frac(queued_cost * 100, cap)
    ELSE IF queued_cost > 0 THEN FracOf(MAX_LOAD) ELSE FracOf(0)

\* load estimate of a queued cost against the capacity of the step
LoadPercent(queued_cost, cap) ==
    IF cap > 0 THEN Frac(queued_cost * 100, cap)
    ELSE IF queued_cost > 0 THEN FracOf(100) ELSE FracOf(0)

\* variant of ClampLoad: no upper limit
ClampLoadNoCeiling(load_percent) == FracMax(FracOf(0), load_percent)

ClampLoad(load_percent) ==
    FracMax(FracOf(0), FracMin(load_percent, FracOf(MAX_LOAD)))

\* variant of QueuedCost: the cost of the request in front
QueuedCostOfHead(q) == IF q = <<>> THEN 0 ELSE Head(q).cost

\* queued_cost = sum(r.cost for r in self.queue)
QueuedCost(q) == SumCost(q)

\* the loop ends; queued_cost and load_percent are computed
StepQueued(t) ==
    /\ pc[t] = "step_loop"
    /\ ~ (/\ queue # <<>>
          /\ Fits(loc[t].processed_cost, StepNext(queue).cost, loc[t].capacity))
    /\ LET queued_cost == QueuedCost(queue)
       IN  loc' = [loc EXCEPT ![t] =
                      [f \in DOMAIN loc[t] \cup {"queued_cost", "load_percent"} |->
                          IF f = "queued_cost" THEN queued_cost
                          ELSE IF f = "load_percent"
                               THEN LoadPercent(queued_cost, loc[t].capacity)
                          ELSE loc[t][f]]]
    /\ pc' = [pc EXCEPT ![t] = "step_load"]
    /\ raised' = "none"
    /\ UNCHANGED <<extvars, drvvars, cfgvars, objvars, histvars>>

\* self.current_load = max(0.0, min(load_percent, 1000.0))
StepLoad(t) ==
    /\ pc[t] = "step_load"
    /\ current_load' = ClampLoad(loc[t].load_percent)
    /\ pc' = [pc EXCEPT ![t] = "step_return"]
    /\ raised' = "none"
    /\ UNCHANGED <<extvars, drvvars, cfgvars, queue, processed, lock, latencies, dropped, loc,
                   histvars>>

\* variant of AvgLatency: the mean of all the samples
AvgLatencyOfAll(lat) ==
    IF lat = <<>> THEN [present |-> FALSE, n |-> 0, d |-> 1]
    ELSE LET a == Frac(SumSeq(lat), Len(lat))
         IN  [present |-> TRUE, n |-> a.n, d |-> a.d]

\* avg_latency = None, or sum(self.latencies[-100:]) / min(len, 100)
AvgLatency(lat) ==
    IF lat = <<>> THEN [present |-> FALSE, n |-> 0, d |-> 1]
    ELSE LET a == Frac(SumSeq(LastK(lat, LATENCY_WINDOW)),
                       Min2(Len(lat), LATENCY_WINDOW))
         IN  [present |-> TRUE, n |-> a.n, d |-> a.d]

\* the dict that step returns
StepStats(t) ==
    [processed |-> loc[t].processed_count,
     queue_len |-> Len(queue),
     processed_cost |-> loc[t].processed_cost,
     queued_cost |-> loc[t].queued_cost,
     avg_latency |-> AvgLatency(latencies),
     current_load_percent |-> current_load]

\* return StepStats(t), lock released
StepReturn(t) ==
    /\ pc[t] = "step_return"
    /\ raised' = "none"
    /\ lock' = NoThread
    /\ pc' = [pc EXCEPT ![t] = "idle"]
    /\ loc' = [loc EXCEPT ![t] = Idle]
    /\ stableLoad' = current_load
    /\ UNCHANGED <<extvars, drvvars, cfgvars, queue, processed, current_load, latencies, dropped,
                   nextId, enqueued, served>>

\* ------------------------------------------------------------- get_state
\* load = self.current_load, without the lock
GetStateRead(t) ==
    /\ pc[t] = "idle"
    /\ pc' = [pc EXCEPT ![t] = "get_state_classify"]
    /\ loc' = [loc EXCEPT ![t] = [op |-> "get_state", load |-> current_load]]
    /\ raised' = "none"
    /\ UNCHANGED <<extvars, drvvars, cfgvars, objvars, histvars>>

\* variant of StateOf: the first comparison is <=
StateOfInclusive(load, warning, overload) ==
    IF FracLeq(load, FracOf(warning)) THEN "NORMAL"
    ELSE IF FracLess(load, FracOf(overload)) THEN "CHARGE"
    ELSE "SURCHARGE"

\* the if / elif / else of get_state
StateOf(load, warning, overload) ==
    IF FracLess(load, FracOf(warning)) THEN "NORMAL"
    ELSE IF FracLess(load, FracOf(overload)) THEN "CHARGE"
    ELSE "SURCHARGE"

\* variant of GetStateLoad: self.current_load is read again for the result
GetStateLoadReread(t) == current_load

\* the load that get_state returns
GetStateLoad(t) == loc[t].load

\* the tuple that get_state returns
GetStateResult(t) ==
    [state |-> StateOf(loc[t].load, warning_threshold, overload_threshold),
     load |-> GetStateLoad(t)]

\* return GetStateResult(t)
GetStateReturn(t) ==
    /\ pc[t] = "get_state_classify"
    /\ raised' = "none"
    /\ pc' = [pc EXCEPT ![t] = "idle"]
    /\ loc' = [loc EXCEPT ![t] = Idle]
    /\ UNCHANGED <<extvars, drvvars, cfgvars, objvars, histvars>>

\* ----------------------------------------------------------------- reset
\* reset(): "with self.lock" entered
ResetCall(t) ==
    /\ pc[t] = "idle"
    /\ lock = NoThread
    /\ lock' = t
    /\ pc' = [pc EXCEPT ![t] = "reset_clear"]
    /\ loc' = [loc EXCEPT ![t] = [op |-> "reset"]]
    /\ raised' = "none"
    /\ UNCHANGED <<extvars, drvvars, cfgvars, queue, processed, current_load, latencies, dropped,
                   histvars>>

\* variant of QueueClear: the head stays
QueueClearButHead(q) == IF q = <<>> THEN q ELSE <<Head(q)>>

\* deque.clear()
QueueClear(q) == <<>>

\* self.queue.clear()
ResetClear(t) ==
    /\ pc[t] = "reset_clear"
    /\ queue' = QueueClear(queue)
    /\ pc' = [pc EXCEPT ![t] = "reset_processed"]
    /\ raised' = "none"
    /\ UNCHANGED <<extvars, drvvars, cfgvars, processed, lock, current_load, latencies, dropped,
                   loc, histvars>>

\* self.processed = 0
ResetProcessed(t) ==
    /\ pc[t] = "reset_processed"
    /\ processed' = 0
    /\ pc' = [pc EXCEPT ![t] = "reset_load"]
    /\ raised' = "none"
    /\ UNCHANGED <<extvars, drvvars, cfgvars, queue, lock, current_load, latencies, dropped,
                   loc, histvars>>

\* self.current_load = 0.0
ResetLoad(t) ==
    /\ pc[t] = "reset_load"
    /\ current_load' = FracOf(0)
    /\ pc' = [pc EXCEPT ![t] = "reset_latencies"]
    /\ raised' = "none"
    /\ UNCHANGED <<extvars, drvvars, cfgvars, queue, processed, lock, latencies, dropped,
                   loc, histvars>>

\* self.latencies = []
ResetLatencies(t) ==
    /\ pc[t] = "reset_latencies"
    /\ latencies' = <<>>
    /\ pc' = [pc EXCEPT ![t] = "reset_dropped"]
    /\ raised' = "none"
    /\ UNCHANGED <<extvars, drvvars, cfgvars, queue, processed, lock, current_load, dropped,
                   loc, histvars>>

\* self.dropped = 0, lock released, return
ResetDropped(t) ==
    /\ pc[t] = "reset_dropped"
    /\ dropped' = 0
    /\ lock' = NoThread
    /\ pc' = [pc EXCEPT ![t] = "idle"]
    /\ loc' = [loc EXCEPT ![t] = Idle]
    /\ enqueued' = 0
    /\ stableLoad' = current_load
    /\ raised' = "none"
    /\ UNCHANGED <<extvars, drvvars, cfgvars, queue, processed, current_load, latencies,
                   nextId, served>>

\* --------------------------------------------------------- specification
Next ==
    \/ \E t \in Threads : EnqueueBadType(t)
    \/ \E t \in Threads, ts \in Times, c \in Costs : EnqueueCall(t, ts, c)
    \/ \E t \in Threads : EnqueueAppend(t)
    \/ \E t \in Threads, dt \in Dts : StepInvalid(t, dt)
    \/ \E t \in Threads, dt \in Dts, now \in Times : StepCall(t, dt, now)
    \/ \E t \in Threads : StepService(t)
    \/ \E t \in Threads : StepQueued(t)
    \/ \E t \in Threads : StepLoad(t)
    \/ \E t \in Threads : StepReturn(t)
    \/ \E t \in Threads : GetStateRead(t)
    \/ \E t \in Threads : GetStateReturn(t)
    \/ \E t \in Threads : ResetCall(t)
    \/ \E t \in Threads : ResetClear(t)
    \/ \E t \in Threads : ResetProcessed(t)
    \/ \E t \in Threads : ResetLoad(t)
    \/ \E t \in Threads : ResetLatencies(t)
    \/ \E t \in Threads : ResetDropped(t)

Spec == Init /\ [][Next]_vars

\* ================================================== batch_run.run_scenario
\* One thread runs a scenario on a ServerModel of its own, then runs the same
\* scenario again.  Each call of enqueue, step and get_state is one step of
\* the run: no other thread has the queue.  simulate_and_plot.run_simulation
\* is the same loop with the module constants in the place of cfg.
Runs == {1, 2}
\* cfg dicts: 1 step of 2 s in 3 s, 2 steps of 1 s, 3 steps without an
\* attacker, a duration shorter than a step, a negative duration
Scenarios ==
    {[name |-> "odd", duration_s |-> 3, dt |-> 2, attackers |-> 1, rate |-> 1,
      mean_cost |-> 1, capacity |-> 1, seed |-> 7],
     [name |-> "long", duration_s |-> 2, dt |-> 1, attackers |-> 2, rate |-> 1,
      mean_cost |-> 2, capacity |-> 2, seed |-> 9],
     [name |-> "quiet", duration_s |-> 3, dt |-> 1, attackers |-> 0, rate |-> 1,
      mean_cost |-> 1, capacity |-> 1, seed |-> 7],
     [name |-> "short", duration_s |-> 1, dt |-> 2, attackers |-> 1, rate |-> 1,
      mean_cost |-> 1, capacity |-> 1, seed |-> 9],
     [name |-> "past", duration_s |-> -3, dt |-> 2, attackers |-> 1, rate |-> 1,
      mean_cost |-> 1, capacity |-> 1, seed |-> 7]}

\* variant of IntQuot: rounded up
IntQuotUp(n, d) == 0 - ((0 - n) \div d)

\* int(n / d), d # 0: the quotient without its fractional part
IntQuot(n, d) ==
    IF (n >= 0) = (d > 0) THEN Abs(n) \div Abs(d) ELSE 0 - (Abs(n) \div Abs(d))

\* ---- the generator: what a generator draws is fixed by the generator, so
\* a draw at a position already drawn from gives the same value again
Raw == {0, 1, 2}           \* the values a generator draws
Entropy(r) == 0 - r        \* what the operating system would give run r
GenIds == {sc.seed : sc \in Scenarios} \cup {Entropy(r) : r \in Runs}

\* variant of default_rng: the seed is not used
default_rngUnseeded(seed, entropy) == entropy

\* np.random.default_rng(seed): the generator is the one of the seed
default_rng(seed, entropy) == seed

\* the next value of the generator is raw
Draw(raw) ==
    /\ IF rng.pos < Len(streams[rng.gen])
       THEN /\ raw = streams[rng.gen][rng.pos + 1]
            /\ UNCHANGED streams
       ELSE streams' = [streams EXCEPT ![rng.gen] = Append(@, raw)]
    /\ rng' = [rng EXCEPT !.pos = @ + 1]

\* int(rng.poisson(lam)), lam >= 0: a count >= 0, 0 when lam = 0
poisson(raw, lam) == IF lam = 0 THEN 0 ELSE raw
\* float(rng.exponential(mean_cost)), mean_cost >= 0: a cost >= 0
exponential(raw, mean_cost) == raw * mean_cost

\* ---- ServerModel, one call at a time
\* the while loop of step on the queue q, the locals processed_cost and
\* processed_count, the fields processed (n) and latencies (lat)
RECURSIVE StepLoop(_, _, _, _, _, _, _)
StepLoop(q, processed_cost, processed_count, n, lat, cap, now) ==
    IF q # <<>> /\ Fits(processed_cost, StepNext(q).cost, cap)
    THEN StepLoop(StepRest(q),
                  processed_cost + StepNext(q).cost,
                  processed_count + 1,
                  CountServiced(n),
                  RecordLatency(lat, Latency(now, StepNext(q))),
                  cap, now)
    ELSE [queue |-> q, processed_cost |-> processed_cost,
          processed_count |-> processed_count, processed |-> n,
          latencies |-> lat, capacity |-> cap]

\* step(dt) at time now on the fields q, n, lat of a queue of capacity cap:
\* the fields it leaves and the dict it returns
StepOn(q, n, lat, cap, dt, now) ==
    LET s == StepLoop(q, 0, 0, n, lat, cap * dt, now)
        queued_cost == QueuedCost(s.queue)
        load == ClampLoad(LoadPercent(queued_cost, s.capacity))
    IN  [queue |-> s.queue, processed |-> s.processed,
         latencies |-> s.latencies, current_load |-> load,
         stats |-> [processed |-> s.processed_count,
                    queue_len |-> Len(s.queue),
                    processed_cost |-> s.processed_cost,
                    queued_cost |-> queued_cost,
                    avg_latency |-> AvgLatency(s.latencies),
                    current_load_percent |-> load]]

NoStats == [processed |-> 0, queue_len |-> 0, processed_cost |-> 0,
            queued_cost |-> 0, avg_latency |-> AvgLatency(<<>>),
            current_load_percent |-> FracOf(0)]

\* ---- run_scenario
DriverInit ==
    /\ scenario \in Scenarios
    /\ AttackOff
    /\ GuiOff
    /\ MitmOff
    /\ capacity = scenario.capacity
    /\ warning_threshold = 70
    /\ overload_threshold = 90
    /\ queue = <<>>
    /\ processed = 0
    /\ lock = NoThread
    /\ current_load = FracOf(0)
    /\ latencies = <<>>
    /\ dropped = 0
    /\ pc = [t \in Threads |-> "idle"]
    /\ loc = [t \in Threads |-> Idle]
    /\ raised = "none"
    /\ nextId = 1
    /\ enqueued = 0
    /\ served = <<>>
    /\ stableLoad = FracOf(0)
    /\ drv = [pc |-> "call"]
    /\ rng = NoRng
    /\ streams = [g \in GenIds |-> <<>>]
    /\ runNo = 1
    /\ first = NoResult

srvfixed == <<warning_threshold, overload_threshold, lock, dropped, pc, loc,
              raised, enqueued, served, stableLoad>>

\* lines 33-37: steps, rng, srv and the three lists
DriverStart ==
    /\ drv.pc = "call"
    /\ drv' = [pc |-> "for",
               steps |-> IntQuot(scenario.duration_s, scenario.dt),
               i |-> 0, t |-> 0, lam |-> 0, arrivals |-> 0, left |-> 0,
               total |-> 0,
               stats |-> NoStats, load |-> FracOf(0),
               times |-> <<>>, loads |-> <<>>, qlens |-> <<>>]
    /\ rng' = [gen |-> default_rng(scenario.seed, Entropy(runNo)), pos |-> 0]
    /\ capacity' = scenario.capacity
    /\ queue' = <<>>
    /\ processed' = 0
    /\ current_load' = FracOf(0)
    /\ latencies' = <<>>
    /\ nextId' = 1
    /\ UNCHANGED <<extvars, srvfixed, scenario, streams, runNo, first>>

\* lam = attackers * rate * dt
ArrivalMean(attackers, rate, dt) == attackers * rate * dt

\* lines 39-42: the next i of range(steps), t, lam and arrivals
DriverArrivals(raw) ==
    /\ drv.pc = "for"
    /\ drv.i < drv.steps
    /\ Draw(raw)
    /\ LET lam == ArrivalMean(scenario.attackers, scenario.rate, scenario.dt)
           arrivals == poisson(raw, lam)
       IN  drv' = [drv EXCEPT !.pc = "enqueue",
                              !.t = drv.i * scenario.dt,
                              !.lam = lam,
                              !.arrivals = arrivals,
                              !.left = arrivals,
                              !.total = @ + arrivals]
    /\ UNCHANGED <<extvars, cfgvars, objvars, pc, loc, raised, histvars,
                   scenario, runNo, first>>

\* variant of Exhausted: the last arrival is left out
ExhaustedEarly(left) == left <= 1

\* range(arrivals) is exhausted
Exhausted(left) == left = 0

\* lines 43-45: one arrival; time.time() gives timestamp
DriverEnqueue(raw, timestamp) ==
    /\ drv.pc = "enqueue"
    /\ ~ Exhausted(drv.left)
    /\ Draw(raw)
    /\ LET cost == exponential(raw, scenario.mean_cost)
       IN  queue' = EnqueuePut(queue, RequestEvent(nextId, timestamp, cost))
    /\ nextId' = nextId + 1
    /\ drv' = [drv EXCEPT !.left = @ - 1]
    /\ UNCHANGED <<extvars, cfgvars, processed, lock, current_load, latencies, dropped,
                   pc, loc, raised, enqueued, served, stableLoad,
                   scenario, runNo, first>>

\* line 47: stats = srv.step(dt=cfg["dt"]); time.time() gives now
DriverStep(now) ==
    /\ drv.pc = "enqueue"
    /\ Exhausted(drv.left)
    /\ ValidDt(scenario.dt)
    /\ LET r == StepOn(queue, processed, latencies, capacity, scenario.dt, now)
       IN  /\ queue' = r.queue
           /\ processed' = r.processed
           /\ latencies' = r.latencies
           /\ current_load' = r.current_load
           /\ drv' = [drv EXCEPT !.pc = "get_state", !.stats = r.stats]
    /\ UNCHANGED <<extvars, cfgvars, lock, dropped, pc, loc, raised, histvars,
                   scenario, rng, streams, runNo, first>>

\* line 48: _, load = srv.get_state()
DriverGetState ==
    /\ drv.pc = "get_state"
    /\ drv' = [drv EXCEPT !.pc = "append", !.load = current_load]
    /\ UNCHANGED <<extvars, cfgvars, objvars, pc, loc, raised, histvars,
                   scenario, rng, streams, runNo, first>>

\* list.append
Recorded(l, x) == Append(l, x)

\* lines 49-51: the three appends
DriverAppend ==
    /\ drv.pc = "append"
    /\ drv' = [drv EXCEPT !.pc = "for",
                          !.i = @ + 1,
                          !.times = Recorded(@, drv.t),
                          !.loads = Recorded(@, drv.load),
                          !.qlens = Recorded(@, drv.stats.queue_len)]
    /\ UNCHANGED <<extvars, cfgvars, objvars, pc, loc, raised, histvars,
                   scenario, rng, streams, runNo, first>>

\* what run_scenario returns
DriverResult ==
    [times |-> drv.times, loads |-> drv.loads, qlens |-> drv.qlens,
     latencies |-> latencies]

\* line 53: range(steps) is exhausted, return
DriverReturn ==
    /\ drv.pc = "for"
    /\ ~ (drv.i < drv.steps)
    /\ drv' = [drv EXCEPT !.pc = "done"]
    /\ UNCHANGED <<extvars, cfgvars, objvars, pc, loc, raised, histvars,
                   scenario, rng, streams, runNo, first>>

\* the scenario is run a second time
DriverAgain ==
    /\ drv.pc = "done"
    /\ runNo = 1
    /\ first' = DriverResult
    /\ runNo' = 2
    /\ drv' = [pc |-> "call"]
    /\ UNCHANGED <<extvars, cfgvars, objvars, pc, loc, raised, histvars,
                   scenario, rng, streams>>

DriverNext ==
    \/ DriverStart
    \/ \E raw \in Raw : DriverArrivals(raw)
    \/ \E raw \in Raw, timestamp \in Times : DriverEnqueue(raw, timestamp)
    \/ \E now \in Times : DriverStep(now)
    \/ DriverGetState
    \/ DriverAppend
    \/ DriverReturn
    \/ DriverAgain

DriverSpec == DriverInit /\ [][DriverNext]_vars

\* ====================================================== attack_sim.Attacker
\* One Attacker object.  A thread runs start_attack once, with a callback or
\* without; other threads call stop_attack and generate_traffic at any moment.
\* Time is counted in seconds from start_time: elapsed_time is what line 149
\* computes, an instant not before the one of the iteration before.
MaxEvents == 3     \* entries of traffic_log

\* constructor arguments <<attack_mode, num_attackers, request_rate, duration,
\* burst_intensity>>: the three modes, a mode the code does not know, and
\* numbers the constructor accepts as well (no attacker, a negative rate, a
\* zero duration)
AttackerArgs ==
    {<<"constant", 2, 3, 5, 5>>, <<"poisson", 2, 1, 5, 5>>,
     <<"burst", 2, 3, 12, 3>>, <<"burst", 1, -1, 12, 3>>,
     <<"flood", 2, 3, 5, 5>>, <<"constant", 0, 3, 0, 5>>,
     <<"poisson", 1, -1, 5, 5>>, <<"constant", 1, -2, 5, 5>>}
\* what the callback of start_attack does when it is called
Callbacks == {"none", "returns", "raises", "blocks"}
Instants == {0, 4, 5, 7, 10, 12}          \* values of elapsed_time in the loop
Elapsed == {0, 4, 5, 7, 9, 10, 14, 15}    \* arguments of generate_traffic

burst_period == 5

\* Attacker.__init__: the fields the methods use
Attacker(attack_mode, num_attackers, request_rate, duration, burst_intensity) ==
    [attack_mode |-> attack_mode, num_attackers |-> num_attackers,
     request_rate |-> request_rate, duration |-> duration,
     burst_intensity |-> burst_intensity,
     traffic_log |-> <<>>, is_attacking |-> FALSE]

\* how a call ends: with a count (and, when a sampler was used, the mean it
\* was given), or with an exception
Counted(n) == [raised |-> "none", count |-> n, sampled |-> FALSE, lam |-> 0]
Sampled(n, lam) == [raised |-> "none", count |-> n, sampled |-> TRUE, lam |-> lam]
Raised(e) == [raised |-> e, count |-> 0, sampled |-> FALSE, lam |-> 0]
SampledRaised(e, lam) == [raised |-> e, count |-> 0, sampled |-> TRUE, lam |-> lam]

\* variant of generate_constant_traffic: the count grows with the time
generate_constant_trafficTimed(self, elapsed_time) ==
    Counted(IntQuot(self.request_rate * self.num_attackers, 1) + elapsed_time)

\* int(self.request_rate * self.num_attackers)
generate_constant_traffic(self, elapsed_time) ==
    Counted(IntQuot(self.request_rate * self.num_attackers, 1))

\* variant of PoissonMean: the mean of a loop iteration of 1/10 s
PoissonMeanScaled(self) == IntQuot(self.request_rate * self.num_attackers, 10)

\* lam = self.request_rate * self.num_attackers
PoissonMean(self) == self.request_rate * self.num_attackers

\* np.random.poisson(lam); numpy refuses a negative mean with ValueError
generate_poisson_traffic(self, elapsed_time, raw) ==
    LET lam == PoissonMean(self)
    IN  IF lam < 0 THEN SampledRaised("ValueError", lam)
        ELSE Sampled(poisson(raw, lam), lam)

\* variant of InBurst: the instant burst_period is still in the burst
InBurstInclusive(cycle_position, period) == cycle_position <= period

\* "if cycle_position < burst_period"
InBurst(cycle_position, period) == cycle_position < period

\* the two phases of lines 105-112; 0.2 is 2/10
generate_burst_traffic(self, elapsed_time) ==
    LET cycle_position == elapsed_time % (burst_period * 2)
    IN  IF InBurst(cycle_position, burst_period)
        THEN Counted(IntQuot(self.request_rate * self.num_attackers
                                 * self.burst_intensity, 1))
        ELSE Counted(IntQuot(self.request_rate * self.num_attackers * 2, 10))

\* the if / elif / else on self.attack_mode
generate_traffic(self, elapsed_time, raw) ==
    IF self.attack_mode = "constant"
    THEN generate_constant_traffic(self, elapsed_time)
    ELSE IF self.attack_mode = "poisson"
    THEN generate_poisson_traffic(self, elapsed_time, raw)
    ELSE IF self.attack_mode = "burst"
    THEN generate_burst_traffic(self, elapsed_time)
    ELSE Raised("ValueError")

\* the dict of lines 159-164; timestamp is datetime.now() counted from
\* start_time, taken at the instant of line 149
LogEntry(self, elapsed_time, num_requests) ==
    [timestamp |-> elapsed_time, elapsed_time |-> elapsed_time,
     num_requests |-> num_requests, attack_mode |-> self.attack_mode]

AttackIdle ==
    [pc |-> "idle", callback |-> "none", elapsed_time |-> 0, num_requests |-> 0,
     sampled |-> FALSE, lam |-> 0, error |-> "none", stopped |-> FALSE, late |-> FALSE, calls |-> <<>>]

AttackInit ==
    /\ \E a \in AttackerArgs :
          attacker = Attacker(a[1], a[2], a[3], a[4], a[5])
    /\ atk = AttackIdle
    /\ returned = NoCall
    /\ DriverOff
    /\ GuiOff
    /\ MitmOff
    /\ capacity = 1
    /\ warning_threshold = 70
    /\ overload_threshold = 90
    /\ queue = <<>>
    /\ processed = 0
    /\ lock = NoThread
    /\ current_load = FracOf(0)
    /\ latencies = <<>>
    /\ dropped = 0
    /\ pc = [t \in Threads |-> "idle"]
    /\ loc = [t \in Threads |-> Idle]
    /\ raised = "none"
    /\ nextId = 1
    /\ enqueued = 0
    /\ served = <<>>
    /\ stableLoad = FracOf(0)

\* what the Attacker does not touch
atkfixed == <<cfgvars, objvars, pc, loc, raised, histvars, drvvars, guivars,
              mitmvars, snap>>

\* start_attack(callback) is called
StartAttack(callback) ==
    /\ atk.pc = "idle"
    /\ atk' = [atk EXCEPT !.pc = "begin", !.callback = callback]
    /\ UNCHANGED <<atkfixed, attacker, returned>>

\* self.is_attacking = True
AttackRunning(flag) == TRUE

\* lines 141-143: the flag, the log, start_time
AttackBegin ==
    /\ atk.pc = "begin"
    /\ attacker' = [attacker EXCEPT !.is_attacking = AttackRunning(@),
                                    !.traffic_log = <<>>]
    /\ atk' = [atk EXCEPT !.pc = "while"]
    /\ UNCHANGED <<atkfixed, returned>>

\* line 148: "while self.is_attacking"
AttackWhile ==
    /\ atk.pc = "while"
    /\ Len(attacker.traffic_log) < MaxEvents
    /\ atk' = [atk EXCEPT !.pc = IF attacker.is_attacking THEN "elapsed"
                                 ELSE "finally",
                          !.late = @ \/ (attacker.is_attacking /\ atk.stopped)]
    /\ UNCHANGED <<atkfixed, attacker, returned>>

\* lines 149-153: elapsed_time, and break when the duration is reached
AttackElapsed(elapsed_time) ==
    /\ atk.pc = "elapsed"
    /\ elapsed_time >= atk.elapsed_time
    /\ atk' = [atk EXCEPT !.pc = IF elapsed_time >= attacker.duration
                                 THEN "finally" ELSE "generate",
                          !.elapsed_time = elapsed_time]
    /\ UNCHANGED <<atkfixed, attacker, returned>>

\* line 156: num_requests = self.generate_traffic(elapsed_time); an exception
\* goes to "except Exception" and from there to "finally"
AttackGenerate(raw) ==
    /\ atk.pc = "generate"
    /\ LET r == generate_traffic(attacker, atk.elapsed_time, raw)
       IN  atk' = IF r.raised = "none"
                  THEN [atk EXCEPT !.pc = "log", !.num_requests = r.count,
                                   !.sampled = r.sampled, !.lam = r.lam]
                  ELSE [atk EXCEPT !.pc = "finally", !.error = "generate",
                                   !.sampled = r.sampled, !.lam = r.lam]
    /\ UNCHANGED <<atkfixed, attacker, returned>>

\* self.traffic_log.append(log_entry)
Logged(log, entry) == Append(log, entry)

\* lines 159-166
AttackLog ==
    /\ atk.pc = "log"
    /\ attacker' = [attacker EXCEPT !.traffic_log =
                       Logged(@, LogEntry(attacker, atk.elapsed_time,
                                          atk.num_requests))]
    /\ atk' = [atk EXCEPT !.pc = "callback"]
    /\ UNCHANGED <<atkfixed, returned>>

\* callback(elapsed_time, num_requests)
Invoked(calls, elapsed_time, num_requests) ==
    Append(calls, <<elapsed_time, num_requests>>)

\* lines 169-173: the callback, when there is one, is called in the loop's
\* own thread, inside the try: it returns and the loop sleeps, or it raises
\* and the loop ends in "except Exception", or it does not return
AttackCallback ==
    /\ atk.pc = "callback"
    /\ atk' = IF atk.callback = "none"
              THEN [atk EXCEPT !.pc = "while"]
              ELSE [atk EXCEPT
                       !.calls = Invoked(@, atk.elapsed_time, atk.num_requests),
                       !.pc = IF atk.callback = "returns" THEN "while"
                              ELSE IF atk.callback = "raises" THEN "finally"
                              ELSE "in_callback",
                       !.error = IF atk.callback = "raises" THEN "callback"
                                 ELSE @]
    /\ UNCHANGED <<atkfixed, attacker, returned>>

\* finally: self.is_attacking = False; start_attack returns
AttackFinally ==
    /\ atk.pc = "finally"
    /\ attacker' = [attacker EXCEPT !.is_attacking = FALSE]
    /\ atk' = [atk EXCEPT !.pc = "done"]
    /\ UNCHANGED <<atkfixed, returned>>

\* stop_attack(), from another thread
StopAttack ==
    /\ attacker # NoAttacker
    /\ attacker' = [attacker EXCEPT !.is_attacking = FALSE]
    /\ atk' = [atk EXCEPT !.stopped = @ \/ atk.pc # "idle"]
    /\ UNCHANGED <<atkfixed, returned>>

\* generate_traffic(elapsed_time), called directly
GenerateTraffic(elapsed_time, raw) ==
    /\ attacker # NoAttacker
    /\ returned' = [called |-> TRUE, elapsed_time |-> elapsed_time]
                       @@ generate_traffic(attacker, elapsed_time, raw)
    /\ UNCHANGED <<atkfixed, attacker, atk>>

AttackNext ==
    \/ \E callback \in Callbacks : StartAttack(callback)
    \/ AttackBegin
    \/ AttackWhile
    \/ \E elapsed_time \in Instants : AttackElapsed(elapsed_time)
    \/ \E raw \in Raw : AttackGenerate(raw)
    \/ AttackLog
    \/ AttackCallback
    \/ AttackFinally
    \/ StopAttack
    \/ \E elapsed_time \in Elapsed, raw \in Raw : GenerateTraffic(elapsed_time, raw)

AttackSpec == AttackInit /\ [][AttackNext]_vars

\* ---- the traffic generators together: a run of run_scenario or an Attacker
TrafficInit == DriverInit \/ AttackInit
TrafficNext == DriverNext \/ AttackNext
TrafficSpec == TrafficInit /\ [][TrafficNext]_vars

\* ======================================== Interface.SimulationGUI (DoS part)
\* Each click on the DoS button starts a thread that copies the six entry
\* fields into the constants of module simulate_and_plot and calls
\* run_simulation there, which reads the constants again at each use and
\* runs on a ServerModel of its own.  Two clicks give two such threads.
GuiThreads == {1, 2}
\* the entries at a click, <<Durée, Pas de temps, Nb attaquants, Taux, Coût
\* moyen, Capacité>>; nothing checks them
GuiEntries ==
    {<<2, 1, 1, 1, 1, 1>>, <<2, 2, 1, 1, 1, 2>>, <<2, 0, 1, 1, 1, 1>>}
GuiRaw == {0, 1}       \* the values a generator draws
\* simulate_and_plot lines 23-30, in small numbers (60.0, 0.5, 5, 4.0, 1.5,
\* 40.0 in the source); SEED is never assigned again
SimDefaults ==
    [DURATION_S |-> 2, DT |-> 1, ATTACKERS |-> 1, RATE_PER_ATTACKER |-> 1,
     MEAN_COST |-> 1, SERVER_CAPACITY |-> 1, SEED |-> 12345]
\* the constant that the k-th assignment of lines 106-111 sets
SimNames ==
    <<"DURATION_S", "DT", "ATTACKERS", "RATE_PER_ATTACKER", "MEAN_COST",
      "SERVER_CAPACITY">>

\* ServerModel(processing_capacity_per_sec=SERVER_CAPACITY)
NewServer(cap) ==
    [capacity |-> cap, queue |-> <<>>, processed |-> 0, latencies |-> <<>>,
     current_load |-> FracOf(0), nextId |-> 1]

GuiIdle ==
    [pc |-> "idle", entries |-> <<>>, k |-> 0, steps |-> 0, i |-> 0, t |-> 0,
     lam |-> 0, left |-> 0, pos |-> 0, srv |-> NewServer(0),
     times |-> <<>>, loads |-> <<>>, queue_lens |-> <<>>,
     error |-> "none", used |-> {}]

GuiInit ==
    /\ sim = SimDefaults
    /\ gui = [t \in GuiThreads |-> GuiIdle]
    /\ streams = [g \in {SimDefaults.SEED} |-> <<>>]
    /\ scenario = NoScenario
    /\ drv = NoRun
    /\ rng = NoRng
    /\ runNo = 0
    /\ first = NoResult
    /\ AttackOff
    /\ MitmOff
    /\ capacity = 1
    /\ warning_threshold = 70
    /\ overload_threshold = 90
    /\ queue = <<>>
    /\ processed = 0
    /\ lock = NoThread
    /\ current_load = FracOf(0)
    /\ latencies = <<>>
    /\ dropped = 0
    /\ pc = [t \in Threads |-> "idle"]
    /\ loc = [t \in Threads |-> Idle]
    /\ raised = "none"
    /\ nextId = 1
    /\ enqueued = 0
    /\ served = <<>>
    /\ stableLoad = FracOf(0)

\* what the interface does not touch
guifixed == <<cfgvars, objvars, pc, loc, raised, histvars, atkvars,
              mitmvars, snap, scenario, drv, rng, runNo, first>>

\* start_simulation_dos: threading.Thread(target=self.run_simulation).start()
GuiClick(t, entries) ==
    /\ gui[t].pc = "idle"
    /\ gui' = [gui EXCEPT ![t] = [GuiIdle EXCEPT !.pc = "assign",
                                                 !.entries = entries,
                                                 !.k = 1]]
    /\ UNCHANGED <<guifixed, sim, streams>>

\* Interface lines 106-111: the next of the six assignments
GuiAssign(t) ==
    /\ gui[t].pc = "assign"
    /\ sim' = [sim EXCEPT ![SimNames[gui[t].k]] = gui[t].entries[gui[t].k]]
    /\ gui' = [gui EXCEPT ![t].k = @ + 1,
                          ![t].pc = IF gui[t].k = Len(SimNames) THEN "steps"
                                    ELSE "assign"]
    /\ UNCHANGED <<guifixed, streams>>

\* a read of the module constant DT
ReadDT(t) == sim.DT

\* simulate_and_plot lines 40-46: steps, rng, srv and the lists; the division
\* by a DT of 0 raises ZeroDivisionError, which Interface line 119 catches
GuiSteps(t) ==
    /\ gui[t].pc = "steps"
    /\ LET dt == ReadDT(t)
       IN  gui' = IF dt = 0
                  THEN [gui EXCEPT ![t].pc = "failed",
                                   ![t].error = "ZeroDivisionError",
                                   ![t].used = @ \cup {dt}]
                  ELSE [gui EXCEPT ![t].pc = "for",
                                   ![t].steps = IntQuot(sim.DURATION_S, dt),
                                   ![t].srv = NewServer(sim.SERVER_CAPACITY),
                                   ![t].used = @ \cup {dt}]
    /\ UNCHANGED <<guifixed, sim, streams>>

\* lines 48-49: the next i of range(steps) and t = i * DT; when the range is
\* exhausted run_simulation returns
GuiTime(t) ==
    /\ gui[t].pc = "for"
    /\ LET dt == ReadDT(t)
       IN  gui' = IF gui[t].i < gui[t].steps
                  THEN [gui EXCEPT ![t].pc = "lam",
                                   ![t].t = gui[t].i * dt,
                                   ![t].used = @ \cup {dt}]
                  ELSE [gui EXCEPT ![t].pc = "done"]
    /\ UNCHANGED <<guifixed, sim, streams>>

\* the next value of the generator of thread t is raw
GuiDraw(t, raw) ==
    LET s == streams[sim.SEED]
    IN  IF gui[t].pos < Len(s)
        THEN raw = s[gui[t].pos + 1] /\ UNCHANGED streams
        ELSE streams' = [streams EXCEPT ![sim.SEED] = Append(@, raw)]

\* lines 51-52: lam and arrivals; numpy refuses a negative mean
GuiArrivals(t, raw) ==
    /\ gui[t].pc = "lam"
    /\ LET dt == ReadDT(t)
           lam == ArrivalMean(sim.ATTACKERS, sim.RATE_PER_ATTACKER, dt)
       IN  IF lam < 0
           THEN /\ gui' = [gui EXCEPT ![t].pc = "failed",
                                      ![t].error = "ValueError",
                                      ![t].lam = lam,
                                      ![t].used = @ \cup {dt}]
                /\ UNCHANGED streams
           ELSE /\ GuiDraw(t, raw)
                /\ gui' = [gui EXCEPT ![t].pc = "enqueue",
                                      ![t].lam = lam,
                                      ![t].left = poisson(raw, lam),
                                      ![t].pos = @ + 1,
                                      ![t].used = @ \cup {dt}]
    /\ UNCHANGED <<guifixed, sim>>

\* lines 53-55: one arrival; time.time() gives timestamp
GuiEnqueue(t, raw, timestamp) ==
    /\ gui[t].pc = "enqueue"
    /\ ~ Exhausted(gui[t].left)
    /\ GuiDraw(t, raw)
    /\ LET cost == exponential(raw, sim.MEAN_COST)
           srv == gui[t].srv
       IN  gui' = [gui EXCEPT
                      ![t].srv.queue =
                          EnqueuePut(@, RequestEvent(srv.nextId, timestamp, cost)),
                      ![t].srv.nextId = @ + 1,
                      ![t].left = @ - 1,
                      ![t].pos = @ + 1]
    /\ UNCHANGED <<guifixed, sim>>

\* lines 57-62: srv.step(dt=DT), which raises ValueError when DT <= 0,
\* srv.get_state() and the three appends
GuiStep(t, now) ==
    /\ gui[t].pc = "enqueue"
    /\ Exhausted(gui[t].left)
    /\ LET dt == ReadDT(t)
           srv == gui[t].srv
           r == StepOn(srv.queue, srv.processed, srv.latencies, srv.capacity,
                       dt, now)
       IN  gui' = IF ~ ValidDt(dt)
                  THEN [gui EXCEPT ![t].pc = "failed",
                                   ![t].error = "ValueError",
                                   ![t].used = @ \cup {dt}]
                  ELSE [gui EXCEPT ![t].pc = "for",
                                   ![t].srv.queue = r.queue,
                                   ![t].srv.processed = r.processed,
                                   ![t].srv.latencies = r.latencies,
                                   ![t].srv.current_load = r.current_load,
                                   ![t].i = @ + 1,
                                   ![t].times = Recorded(@, gui[t].t),
                                   ![t].loads = Recorded(@, r.current_load),
                                   ![t].queue_lens =
                                       Recorded(@, r.stats.queue_len),
                                   ![t].used = @ \cup {dt}]
    /\ UNCHANGED <<guifixed, sim, streams>>

GuiNext ==
    \/ \E t \in GuiThreads, entries \in GuiEntries : GuiClick(t, entries)
    \/ \E t \in GuiThreads : GuiAssign(t)
    \/ \E t \in GuiThreads : GuiSteps(t)
    \/ \E t \in GuiThreads : GuiTime(t)
    \/ \E t \in GuiThreads, raw \in GuiRaw : GuiArrivals(t, raw)
    \/ \E t \in GuiThreads, raw \in GuiRaw, timestamp \in Times :
          GuiEnqueue(t, raw, timestamp)
    \/ \E t \in GuiThreads, now \in Times : GuiStep(t, now)

GuiSpec == GuiInit /\ [][GuiNext]_vars

\* ======================================= Interface.SimulationGUI (MITM part)
\* start_simulation_mitm starts a thread on run_mitm at every click; the
\* threads share the module global arpspoof_running, which run_mitm sets and
\* stop_simulation_mitm clears.  arpSpoofing is not part of the sources: of
\* spoofer and restore only the call and its two outcomes are modelled.
MaxRounds == 2           \* iterations of the loop of one run_mitm
MitmThreads == {1, 2}
\* the two entries at a click, <<IP cible, IP passerelle>>
MitmIps == {<<"10.0.0.5", "10.0.0.1">>, <<"", "10.0.0.1">>}
\* a call of arps.spoofer or arps.restore returns or raises
CallOutcomes == {"returns", "raises"}

MitmIdle ==
    [pc |-> "idle", ip_cible |-> "", ip_passerelle |-> "", packets |-> 0,
     poisons |-> <<>>, restores |-> <<>>, error |-> "none",
     cleared |-> FALSE, missed |-> FALSE]

MitmInit ==
    /\ arpspoof_running = FALSE
    /\ mitm = [t \in MitmThreads |-> MitmIdle]
    /\ snap = NoSnap
    /\ DriverOff
    /\ AttackOff
    /\ GuiOff
    /\ capacity = 1
    /\ warning_threshold = 70
    /\ overload_threshold = 90
    /\ queue = <<>>
    /\ processed = 0
    /\ lock = NoThread
    /\ current_load = FracOf(0)
    /\ latencies = <<>>
    /\ dropped = 0
    /\ pc = [t \in Threads |-> "idle"]
    /\ loc = [t \in Threads |-> Idle]
    /\ raised = "none"
    /\ nextId = 1
    /\ enqueued = 0
    /\ served = <<>>
    /\ stableLoad = FracOf(0)

\* what the network attack does not touch
mitmfixed == <<cfgvars, objvars, pc, loc, raised, histvars, drvvars, atkvars,
               guivars, snap>>

\* the positions of run_mitm inside its while loop, after the flag was set
InLoop(t) == mitm[t].pc \in {"while", "poison1", "poison2", "sleep"}

\* start_simulation_mitm (lines 87-97): without both IPs an error box and no
\* thread, else a thread on run_mitm
StartMitm(t, ips) ==
    /\ mitm[t].pc = "idle"
    /\ mitm' = [mitm EXCEPT ![t] =
                   IF ips[1] = "" \/ ips[2] = ""
                   THEN [MitmIdle EXCEPT !.pc = "refused"]
                   ELSE [MitmIdle EXCEPT !.pc = "begin",
                                         !.ip_cible = ips[1],
                                         !.ip_passerelle = ips[2]]]
    /\ UNCHANGED <<mitmfixed, arpspoof_running>>

\* lines 126-128: arpspoof_running = True; packets = 0
MitmBegin(t) ==
    /\ mitm[t].pc = "begin"
    /\ arpspoof_running' = TRUE
    /\ mitm' = [mitm EXCEPT ![t].pc = "while", ![t].packets = 0]
    /\ UNCHANGED mitmfixed

\* line 129: while arpspoof_running
MitmWhile(t) ==
    /\ mitm[t].pc = "while"
    /\ arpspoof_running => mitm[t].packets < 2 * MaxRounds
    /\ mitm' = [mitm EXCEPT ![t].pc = IF arpspoof_running THEN "poison1"
                                      ELSE "restore1",
                            ![t].missed = @ \/ (mitm[t].cleared
                                                /\ arpspoof_running),
                            ![t].cleared = FALSE]
    /\ UNCHANGED <<mitmfixed, arpspoof_running>>

\* the operation that a call has performed is added to the list
Performed(done, target_ip, spoofed_ip) == Append(done, <<target_ip, spoofed_ip>>)

\* line 130: arps.spoofer(ip_cible, ip_passerelle)
MitmPoison1(t, outcome) ==
    /\ mitm[t].pc = "poison1"
    /\ mitm' = IF outcome = "raises"
               THEN [mitm EXCEPT ![t].pc = "except", ![t].error = "spoofer"]
               ELSE [mitm EXCEPT ![t].pc = "poison2",
                                 ![t].poisons =
                                     Performed(@, mitm[t].ip_cible,
                                               mitm[t].ip_passerelle)]
    /\ UNCHANGED <<mitmfixed, arpspoof_running>>

\* line 131: arps.spoofer(ip_passerelle, ip_cible)
MitmPoison2(t, outcome) ==
    /\ mitm[t].pc = "poison2"
    /\ mitm' = IF outcome = "raises"
               THEN [mitm EXCEPT ![t].pc = "except", ![t].error = "spoofer"]
               ELSE [mitm EXCEPT ![t].pc = "sleep",
                                 ![t].poisons =
                                     Performed(@, mitm[t].ip_passerelle,
                                               mitm[t].ip_cible)]
    /\ UNCHANGED <<mitmfixed, arpspoof_running>>

\* lines 132-134: the log line, packets += 2, time.sleep(2)
MitmSleep(t) ==
    /\ mitm[t].pc = "sleep"
    /\ mitm' = [mitm EXCEPT ![t].pc = "while", ![t].packets = @ + 2]
    /\ UNCHANGED <<mitmfixed, arpspoof_running>>

\* line 135: arps.restore(ip_cible, ip_passerelle)
MitmRestore1(t, outcome) ==
    /\ mitm[t].pc = "restore1"
    /\ mitm' = IF outcome = "raises"
               THEN [mitm EXCEPT ![t].pc = "except", ![t].error = "restore"]
               ELSE [mitm EXCEPT ![t].pc = "restore2",
                                 ![t].restores =
                                     Performed(@, mitm[t].ip_cible,
                                               mitm[t].ip_passerelle)]
    /\ UNCHANGED <<mitmfixed, arpspoof_running>>

\* lines 136-137: arps.restore(ip_passerelle, ip_cible) and the log line
MitmRestore2(t, outcome) ==
    /\ mitm[t].pc = "restore2"
    /\ mitm' = IF outcome = "raises"
               THEN [mitm EXCEPT ![t].pc = "except", ![t].error = "restore"]
               ELSE [mitm EXCEPT ![t].pc = "done",
                                 ![t].restores =
                                     Performed(@, mitm[t].ip_passerelle,
                                               mitm[t].ip_cible)]
    /\ UNCHANGED <<mitmfixed, arpspoof_running>>

\* lines 138-140: except Exception: the log line and the error box
MitmExcept(t) ==
    /\ mitm[t].pc = "except"
    /\ mitm' = [mitm EXCEPT ![t].pc = "done"]
    /\ UNCHANGED <<mitmfixed, arpspoof_running>>

\* stop_simulation_mitm (lines 99-102): arpspoof_running = False; history:
\* every thread inside its loop has had the flag cleared
StopMitm ==
    /\ arpspoof_running' = FALSE
    /\ mitm' = [t \in MitmThreads |->
                   IF InLoop(t) THEN [mitm[t] EXCEPT !.cleared = TRUE]
                   ELSE mitm[t]]
    /\ UNCHANGED mitmfixed

MitmNext ==
    \/ \E t \in MitmThreads, ips \in MitmIps : StartMitm(t, ips)
    \/ \E t \in MitmThreads : MitmBegin(t)
    \/ \E t \in MitmThreads : MitmWhile(t)
    \/ \E t \in MitmThreads, outcome \in CallOutcomes : MitmPoison1(t, outcome)
    \/ \E t \in MitmThreads, outcome \in CallOutcomes : MitmPoison2(t, outcome)
    \/ \E t \in MitmThreads : MitmSleep(t)
    \/ \E t \in MitmThreads, outcome \in CallOutcomes : MitmRestore1(t, outcome)
    \/ \E t \in MitmThreads, outcome \in CallOutcomes : MitmRestore2(t, outcome)
    \/ \E t \in MitmThreads : MitmExcept(t)
    \/ StopMitm

MitmSpec == MitmInit /\ [][MitmNext]_vars

\* ============================== ServerModel with latency samples on record
\* step computes avg_latency from self.latencies alone.  For the statements
\* about that average the queue starts as one that has serviced requests
\* before: its latencies are drawn from SampleLists, which reach beyond the
\* window of the average; enqueue, step and reset are then whole calls.
Rep(x, k) == [i \in 1..k |-> x]
\* self.latencies of a queue that has serviced 0, 1, 99, 100, 101 requests,
\* the oldest one after a wait of 6 (or 4) and the others at once
SampleLists ==
    {<<>>, <<4>>, <<6>> \o Rep(0, 98), <<6>> \o Rep(0, 99),
     <<6>> \o Rep(0, 100)}
\* processing_capacity_per_sec
SampleCapacities == {0, 2}

WindowInit ==
    /\ capacity \in SampleCapacities
    /\ warning_threshold = 70
    /\ overload_threshold = 90
    /\ latencies \in SampleLists
    /\ processed = Len(latencies)
    /\ queue = <<>>
    /\ lock = NoThread
    /\ current_load = FracOf(0)
    /\ dropped = 0
    /\ pc = [t \in Threads |-> "idle"]
    /\ loc = [t \in Threads |-> Idle]
    /\ raised = "none"
    /\ nextId = 1
    /\ enqueued = 0
    /\ served = <<>>
    /\ stableLoad = FracOf(0)
    /\ snap = NoSnap
    /\ arpspoof_running = FALSE
    /\ mitm = NoMitm
    /\ DriverOff
    /\ AttackOff
    /\ GuiOff

\* what the whole calls do not touch; the history of the split calls is not
\* kept
winfixed == <<cfgvars, lock, pc, loc, enqueued, served, drvvars, atkvars,
              guivars, mitmvars>>

\* enqueue(RequestEvent(timestamp, cost))
WindowEnqueue(timestamp, cost) ==
    /\ nextId <= MaxReq
    /\ queue' = EnqueuePut(queue, RequestEvent(nextId, timestamp, cost))
    /\ nextId' = nextId + 1
    /\ raised' = "none"
    /\ snap' = NoSnap
    /\ UNCHANGED <<winfixed, processed, current_load, latencies, dropped,
                   stableLoad>>

\* step(dt) at time now: ValueError, or the dict it returns
WindowStep(dt, now) ==
    /\ IF ValidDt(dt)
       THEN LET r == StepOn(queue, processed, latencies, capacity, dt, now)
            IN  /\ queue' = r.queue
                /\ processed' = r.processed
                /\ latencies' = r.latencies
                /\ current_load' = r.current_load
                /\ stableLoad' = r.current_load
                /\ raised' = "none"
                /\ snap' = [called |-> TRUE, stats |-> r.stats]
       ELSE /\ raised' = "ValueError"
            /\ snap' = NoSnap
            /\ UNCHANGED <<queue, processed, latencies, current_load,
                           stableLoad>>
    /\ UNCHANGED <<winfixed, dropped, nextId>>

\* reset()
WindowReset ==
    /\ queue' = <<>>
    /\ processed' = 0
    /\ current_load' = FracOf(0)
    /\ stableLoad' = FracOf(0)
    /\ latencies' = <<>>
    /\ dropped' = 0
    /\ raised' = "none"
    /\ snap' = NoSnap
    /\ UNCHANGED <<winfixed, nextId>>

WindowNext ==
    \/ \E timestamp \in Times, cost \in Costs : WindowEnqueue(timestamp, cost)
    \/ \E dt \in Dts, now \in Times : WindowStep(dt, now)
    \/ WindowReset

WindowSpec == WindowInit /\ [][WindowNext]_vars

\* ================================================================ claims
\* A thread at "step_return" has finished the body of step: StepStats is the
\* dict it returns, loc[t].pre_* is the queue as the call found it.
Returning(t) == pc[t] = "step_return"
StepCapacity(t) == capacity * loc[t].dt
Cum(q, j) == SumCost(SubSeq(q, 1, j))
NonNegative(q) == \A i \in 1..Len(q) : q[i].cost >= 0
Ids(q) == [i \in 1..Len(q) |-> q[i].id]
Increasing(s) == \A i, j \in 1..Len(s) : i < j => s[i] < s[j]
RemovedBy(t) == SubSeq(loc[t].pre_queue, 1, Len(loc[t].pre_queue) - Len(queue))
IsSuffix(q, p) ==
    /\ Len(q) <= Len(p)
    /\ q = SubSeq(p, Len(p) - Len(q) + 1, Len(p))

\* C1 (as claimed): a step(dt), dt > 0, on a backlog of requests of cost >= 0
\* returns a processed_cost, the total cost of the requests it removed, that
\* is at most capacity_per_second * dt.
C1_ProcessedCostAtMostCapacity ==
    \A t \in Threads :
        (Returning(t) /\ NonNegative(loc[t].pre_queue)) =>
            /\ StepStats(t).processed_cost = SumCost(RemovedBy(t))
            /\ StepStats(t).processed_cost <= StepCapacity(t)

\* C1 (amended): under the same conditions processed_cost is the total cost
\* of the requests removed and is at most max(0, capacity_per_second * dt);
\* with a negative capacity nothing is removed and processed_cost is 0.
C1_ProcessedCostAtMostCapacityOrZero ==
    \A t \in Threads :
        (Returning(t) /\ NonNegative(loc[t].pre_queue)) =>
            /\ IsSuffix(queue, loc[t].pre_queue)
            /\ StepStats(t).processed_cost = SumCost(RemovedBy(t))
            /\ StepStats(t).processed_cost <= Max2(0, StepCapacity(t))

\* a step that used its whole capacity and left a request behind
C1_Witness ==
    \E t \in Threads :
        /\ Returning(t)
        /\ NonNegative(loc[t].pre_queue)
        /\ StepStats(t).processed_cost = StepCapacity(t)
        /\ StepStats(t).processed >= 1
        /\ queue # <<>>

\* C2: requests are serviced in the order they were enqueued: the serviced
\* identities increase, every request still in the backlog was enqueued
\* after every serviced one, the backlog keeps the enqueue order, and a step
\* leaves a suffix of the backlog it found.
C2_Fifo ==
    /\ Increasing(served \o Ids(queue))
    /\ \A t \in Threads :
          pc[t] \in {"step_loop", "step_load", "step_return"} =>
              IsSuffix(queue, loc[t].pre_queue)

\* a step serviced the earlier request and left the later one
C2_Witness ==
    \E t \in Threads :
        /\ Returning(t)
        /\ Len(loc[t].pre_queue) = 2
        /\ StepStats(t).processed = 1
        /\ Len(queue) = 1
        /\ served # <<>>

\* the lengths of the prefixes of the backlog a step found whose cumulative
\* cost is within its capacity
Within(t) ==
    {j \in 0..Len(loc[t].pre_queue) : Cum(loc[t].pre_queue, j) <= StepCapacity(t)}
\* the step serviced the longest of them (nothing, if there is none)
ServicedLongestWithin(t) ==
    LET k == StepStats(t).processed
    IN  /\ Within(t) # {} => (k \in Within(t) /\ \A j \in Within(t) : j <= k)
        /\ Within(t) = {} => k = 0

\* C3 (as claimed): step(dt) services exactly the longest prefix of the
\* backlog whose cumulative cost is <= capacity_per_second * dt.
C3_LongestPrefixWithinCapacity ==
    \A t \in Threads :
        Returning(t) =>
            LET p == loc[t].pre_queue
                k == StepStats(t).processed
            IN  /\ queue = SubSeq(p, k + 1, Len(p))
                /\ ServicedLongestWithin(t)

\* C3 (amended): step(dt) services exactly the longest prefix of the backlog
\* all of whose non-empty initial segments have cumulative cost <=
\* capacity_per_second * dt: each serviced request fitted when it was taken,
\* and afterwards the backlog is empty or processed_cost + the cost of its
\* head > capacity, whatever lies behind that head.  When every cost is >= 0
\* this is the longest prefix whose cumulative cost is <=
\* capacity_per_second * dt.
C3_GreedyPrefix ==
    \A t \in Threads :
        Returning(t) =>
            LET p == loc[t].pre_queue
                k == StepStats(t).processed
            IN  /\ k \in 0..Len(p)
                /\ queue = SubSeq(p, k + 1, Len(p))
                /\ StepStats(t).processed_cost = Cum(p, k)
                /\ \A j \in 1..k : Cum(p, j) <= StepCapacity(t)
                /\ \/ queue = <<>>
                   \/ StepStats(t).processed_cost + Head(queue).cost
                          > StepCapacity(t)
                /\ NonNegative(p) => ServicedLongestWithin(t)

\* the head does not fit and the cheaper request behind it, which would
\* have fitted, is left as well
C3_Witness ==
    \E t \in Threads :
        /\ Returning(t)
        /\ Len(queue) = 2
        /\ queue = loc[t].pre_queue
        /\ queue[1].cost > StepCapacity(t)
        /\ queue[2].cost >= 0
        /\ queue[2].cost <= StepCapacity(t)

\* C4 (as claimed): enqueue, step, get_state and reset exclude one another:
\* at most one thread is inside the reads and writes of enqueue, step or
\* reset at a time, and get_state reads current_load only when no thread is
\* inside them.
InCritical(t) == pc[t] \notin {"idle", "get_state_classify"}
C4_MutualExclusion ==
    /\ [](\A t, u \in Threads : (InCritical(t) /\ InCritical(u)) => t = u)
    /\ [][\A t \in Threads : GetStateRead(t) => lock = NoThread]_vars

\* the operation that holds the lock has not yet written current_load, or
\* has written it for the last time
WholeLoad ==
    \/ lock = NoThread
    \/ current_load = stableLoad
    \/ pc[lock] \in {"step_return", "reset_latencies", "reset_dropped"}

\* C5: a get_state that runs while a step or a reset is in progress reads a
\* load that current_load held before or after the whole operation, returns
\* the load it read, and the state it returns is the classification of
\* exactly that load.
C5_GetStateSeesWholeOperations ==
    /\ [][\A t \in Threads : GetStateRead(t) => WholeLoad]_vars
    /\ [](\A t \in Threads :
            pc[t] = "get_state_classify" =>
                LET r == GetStateResult(t)
                    w == FracOf(warning_threshold)
                    o == FracOf(overload_threshold)
                IN  /\ r.load = loc[t].load
                    /\ r.state = "NORMAL" <=> FracLess(r.load, w)
                    /\ r.state = "CHARGE" <=>
                           (~ FracLess(r.load, w) /\ FracLess(r.load, o))
                    /\ r.state = "SURCHARGE" <=>
                           (~ FracLess(r.load, w) /\ ~ FracLess(r.load, o)))

\* get_state is classifying the load it read before the step of another
\* thread, still in progress, wrote a different one
C5_Witness ==
    \E t \in Threads :
        /\ pc[t] = "get_state_classify"
        /\ lock \in Threads \ {t}
        /\ pc[lock] = "step_return"
        /\ loc[t].load = stableLoad
        /\ current_load # loc[t].load

\* C6: no request is dropped, rejected or duplicated: outside a reset the
\* successful enqueues since construction or the last reset number
\* processed + len(queue), no request is both serviced and queued or present
\* twice, each new request sits at the tail, and dropped stays 0.
Resetting ==
    \E t \in Threads :
        pc[t] \in {"reset_clear", "reset_processed", "reset_load",
                   "reset_latencies", "reset_dropped"}
C6_NothingDropped ==
    /\ ~ Resetting => enqueued = processed + Len(queue)
    /\ \A i, j \in 1..Len(served \o Ids(queue)) :
          i # j => (served \o Ids(queue))[i] # (served \o Ids(queue))[j]
    /\ queue # <<>> =>
          \A i \in 1..Len(queue) : queue[i].id <= queue[Len(queue)].id
    /\ \A t \in Threads :
          pc[t] = "enqueue_append" => loc[t].req.id = nextId - 1
    /\ dropped = 0

\* one thread is in the loop of step, having serviced one of two enqueued
\* requests, while the other thread is inside get_state
C6_Witness ==
    \E t, u \in Threads :
        /\ t # u
        /\ pc[t] = "step_loop"
        /\ pc[u] = "get_state_classify"
        /\ enqueued = 2
        /\ processed = 1
        /\ Len(queue) = 1

\* C7: current_load is always within [0, 1000].
C7_LoadInRange ==
    /\ FracLeq(FracOf(0), current_load)
    /\ FracLeq(current_load, FracOf(MAX_LOAD))

\* a step computed a load above 1000 and stored 1000
C7_Witness ==
    \E t \in Threads :
        /\ Returning(t)
        /\ FracLess(FracOf(MAX_LOAD), loc[t].load_percent)
        /\ current_load = FracOf(MAX_LOAD)

\* C8: after step(dt), with c = capacity_per_second * dt and q the summed
\* cost of the requests left: if c > 0, current_load is q / c * 100 clamped
\* to [0, 1000]; otherwise it is 100 if q > 0 and 0 if not.
C8_LoadFormula ==
    \A t \in Threads :
        Returning(t) =>
            LET q == SumCost(queue)
                c == StepCapacity(t)
            IN  /\ StepStats(t).queued_cost = q
                /\ StepStats(t).current_load_percent = current_load
                /\ current_load.d > 0
                /\ (c > 0 /\ q * 100 < 0) => current_load = FracOf(0)
                /\ (c > 0 /\ q * 100 > MAX_LOAD * c) =>
                       current_load = FracOf(MAX_LOAD)
                /\ (c > 0 /\ q * 100 >= 0 /\ q * 100 <= MAX_LOAD * c) =>
                       current_load.n * c = q * 100 * current_load.d
                /\ (c <= 0 /\ q > 0) => current_load = FracOf(100)
                /\ (c <= 0 /\ q <= 0) => current_load = FracOf(0)

\* a step with positive capacity left a load strictly between 0 and 1000
C8_Witness ==
    \E t \in Threads :
        /\ Returning(t)
        /\ StepCapacity(t) > 0
        /\ FracLess(FracOf(0), current_load)
        /\ FracLess(current_load, FracOf(MAX_LOAD))

\* the state get_state reports for the load a finished step has left
StateAfterStep == StateOf(current_load, warning_threshold, overload_threshold)
\* the step had a capacity > 0 and left a queued cost of at least
\* overload_threshold percent of it
LeavesOverload(t) ==
    /\ StepCapacity(t) > 0
    /\ SumCost(queue) * 100 >= overload_threshold * StepCapacity(t)

\* C9 (as claimed): get_state returns NORMAL when load < warning_threshold,
\* CHARGE when warning_threshold <= load < overload_threshold, SURCHARGE when
\* load >= overload_threshold; a step that leaves a queued cost of at least
\* overload_threshold percent of its capacity is followed by SURCHARGE.
C9_ThreeBands ==
    /\ \A t \in Threads :
          pc[t] = "get_state_classify" =>
              LET r == GetStateResult(t)
                  w == FracOf(warning_threshold)
                  o == FracOf(overload_threshold)
              IN  /\ FracLess(r.load, w) => r.state = "NORMAL"
                  /\ (FracLeq(w, r.load) /\ FracLess(r.load, o)) =>
                         r.state = "CHARGE"
                  /\ FracLeq(o, r.load) => r.state = "SURCHARGE"
    /\ \A t \in Threads :
          (Returning(t) /\ LeavesOverload(t)) => StateAfterStep = "SURCHARGE"

\* C9 (amended): get_state returns NORMAL when load < warning_threshold,
\* otherwise CHARGE when load < overload_threshold, otherwise SURCHARGE (the
\* three bands of the claim when warning_threshold <= overload_threshold); a
\* step that leaves a queued cost of at least overload_threshold percent of
\* its capacity is followed by SURCHARGE when warning_threshold <=
\* overload_threshold <= 1000, the value the load is clamped to.
C9_IfElifElse ==
    /\ \A t \in Threads :
          pc[t] = "get_state_classify" =>
              LET r == GetStateResult(t)
                  w == FracOf(warning_threshold)
                  o == FracOf(overload_threshold)
              IN  /\ r.state \in {"NORMAL", "CHARGE", "SURCHARGE"}
                  /\ FracLess(r.load, w) => r.state = "NORMAL"
                  /\ (FracLeq(w, r.load) /\ FracLess(r.load, o)) =>
                         r.state = "CHARGE"
                  /\ (FracLeq(w, r.load) /\ FracLeq(o, r.load)) =>
                         r.state = "SURCHARGE"
    /\ \A t \in Threads :
          (/\ Returning(t)
           /\ LeavesOverload(t)
           /\ warning_threshold <= overload_threshold
           /\ overload_threshold <= MAX_LOAD) => StateAfterStep = "SURCHARGE"

\* get_state returns CHARGE for a load equal to warning_threshold
C9_Witness ==
    \E t \in Threads :
        /\ pc[t] = "get_state_classify"
        /\ loc[t].load = FracOf(warning_threshold)
        /\ GetStateResult(t).state = "CHARGE"

\* C10: step(dt) on an empty backlog returns processed = 0, queue_len = 0,
\* queued_cost = 0 and current_load_percent = 0 and leaves queue, processed
\* and latencies as they were, so a second such call starts from the state
\* the first one left and returns the same.
C10_StepOnEmptyBacklog ==
    \A t \in Threads :
        (Returning(t) /\ loc[t].pre_queue = <<>>) =>
            /\ StepStats(t).processed = 0
            /\ StepStats(t).queue_len = 0
            /\ StepStats(t).processed_cost = 0
            /\ StepStats(t).queued_cost = 0
            /\ StepStats(t).current_load_percent = FracOf(0)
            /\ StepStats(t).avg_latency = AvgLatency(loc[t].pre_latencies)
            /\ current_load = FracOf(0)
            /\ queue = <<>>
            /\ processed = loc[t].pre_processed
            /\ latencies = loc[t].pre_latencies

\* a step on an empty backlog of a queue that has serviced requests before,
\* with no capacity
C10_Witness ==
    \E t \in Threads :
        /\ Returning(t)
        /\ loc[t].pre_queue = <<>>
        /\ loc[t].pre_latencies # <<>>
        /\ StepCapacity(t) <= 0

\* the positions of a thread inside step
InStep(t) == pc[t] \in {"step_loop", "step_load", "step_return"}
\* what a finished step has done to the queue it found: the serviced
\* requests are counted and timed, the load is that of what is left
StepComplete(t) ==
    LET k == Len(loc[t].pre_queue) - Len(queue)
    IN  /\ IsSuffix(queue, loc[t].pre_queue)
        /\ loc[t].processed_count = k
        /\ processed = loc[t].pre_processed + k
        /\ Len(latencies) = Len(loc[t].pre_latencies) + k
        /\ SubSeq(latencies, 1, Len(loc[t].pre_latencies)) = loc[t].pre_latencies
        /\ \/ queue = <<>>
           \/ ~ Fits(loc[t].processed_cost, Head(queue).cost, StepCapacity(t))
        /\ current_load = ClampLoad(LoadPercent(SumCost(queue), StepCapacity(t)))

\* a refused call changes nothing
RefusalChangesNothing ==
    raised' = "ValueError" =>
        UNCHANGED <<queue, processed, current_load, latencies, lock, pc>>
\* a dt <= 0 is always refused and never starts a step
InvalidDtRefused ==
    \A t \in Threads, dt \in Dts :
        (pc[t] = "idle" /\ dt <= 0) =>
            /\ ENABLED StepInvalid(t, dt)
            /\ ~ ENABLED (\E now \in Times : StepCall(t, dt, now))
\* while a step runs the queue only changes by its loop, which shortens it
StepLoopShortens ==
    \A t \in Threads :
        (InStep(t) /\ InStep(t)') =>
            /\ loc[t]'.dt = loc[t].dt
            /\ queue' # queue =>
                   (pc[t] = "step_loop" /\ Len(queue') < Len(queue))

\* no statement of a running step raises
StepNeverRaises ==
    \A t \in Threads :
        (StepService(t) \/ StepQueued(t) \/ StepLoad(t) \/ StepReturn(t)) =>
            raised' = "none"

\* C11: step(dt) with dt <= 0 raises ValueError and leaves queue, processed,
\* current_load and latencies as they were, and no step runs with such a dt;
\* a step with dt > 0 raises nothing, can always take its next statement,
\* shortens the queue at every iteration of its loop while no other thread
\* touches the queue, and returns with the whole step done.
C11_StepRejectsOrCompletes ==
    /\ [](\A t \in Threads :
            /\ InStep(t) => (loc[t].dt > 0 /\ lock = t)
            /\ InStep(t) => ENABLED (StepService(t) \/ StepQueued(t)
                                       \/ StepLoad(t) \/ StepReturn(t))
            /\ Returning(t) => StepComplete(t))
    /\ []InvalidDtRefused
    /\ [][/\ RefusalChangesNothing
          /\ StepLoopShortens
          /\ StepNeverRaises]_vars

\* a step with dt <= 0 has just been refused on a queue that holds a request
\* and has serviced one
C11_Witness ==
    /\ raised = "ValueError"
    /\ queue # <<>>
    /\ latencies # <<>>
    /\ processed > 0
    /\ current_load # FracOf(0)

\* C12 (as claimed): a capacity <= 0 is refused at the call boundary, so no
\* step runs on a queue with capacity <= 0.
C12_StepNeverRunsWithoutCapacity ==
    \A t \in Threads : InStep(t) => capacity > 0

\* C12 (amended): a capacity <= 0 is not refused: the queue is constructed,
\* step(dt) with dt > 0 starts on it as on any other, raises nothing and
\* completes; of a backlog of requests of cost > 0 it services none, and it
\* leaves current_load at 100 when the queued cost is > 0 and at 0 otherwise.
C12_StepRunsWithoutCapacity ==
    \A t \in Threads :
        capacity <= 0 =>
            /\ (pc[t] = "idle" /\ lock = NoThread) =>
                   \A dt \in Dts :
                       dt > 0 => ENABLED (\E now \in Times : StepCall(t, dt, now))
            /\ Returning(t) =>
                   /\ StepComplete(t)
                   /\ (\A i \in 1..Len(loc[t].pre_queue) :
                           loc[t].pre_queue[i].cost > 0) =>
                          (queue = loc[t].pre_queue /\ StepStats(t).processed = 0)
                   /\ current_load =
                          IF SumCost(queue) > 0 THEN FracOf(100) ELSE FracOf(0)

\* a step on a queue of capacity <= 0 has left a request and a load of 100
C12_Witness ==
    \E t \in Threads :
        /\ Returning(t)
        /\ capacity <= 0
        /\ queue # <<>>
        /\ current_load = FracOf(100)

\* the requests that enqueue calls in progress are about to append
Pending == {loc[t].req : t \in {u \in Threads : pc[u] = "enqueue_append"}}
\* every request of the next backlog is one of this backlog or one being
\* enqueued, as it was passed
BacklogFromEnqueue ==
    \A i \in 1..Len(queue') :
        \/ \E j \in 1..Len(queue) : queue[j] = queue'[i]
        \/ queue'[i] \in Pending
\* costs >= 0 in the backlog and in the calls in progress stay >= 0
NonNegativeKept ==
    (NonNegative(queue) /\ \A r \in Pending : r.cost >= 0) => NonNegative(queue')

\* C13 (as claimed): every request in the backlog has cost >= 0.
C13_BacklogNonNegative == NonNegative(queue)

\* C13 (amended): enqueue accepts a request of any cost and every request in
\* the backlog is one that was enqueued, with the cost it was enqueued with:
\* the backlog holds only costs >= 0 as long as only such requests are
\* enqueued.
C13_BacklogHoldsWhatWasEnqueued ==
    /\ [](\A t \in Threads :
            (pc[t] = "idle" /\ lock = NoThread /\ nextId <= MaxReq) =>
                \A c \in Costs, ts \in Times : ENABLED EnqueueCall(t, ts, c))
    /\ [][BacklogFromEnqueue /\ NonNegativeKept]_vars

\* the backlog holds a request of negative cost behind one of positive cost
C13_Witness ==
    /\ Len(queue) = 2
    /\ queue[1].cost > 0
    /\ queue[2].cost < 0

\* C14 (as claimed): over any sequence of enqueue, step, get_state and reset
\* the value of processed never decreases.
C14_ProcessedNeverDecreases == [][processed' >= processed]_vars

\* C14 (amended): processed never decreases over enqueue, step and
\* get_state, where it changes only by one for each request serviced; reset
\* sets it to 0.
C14_ProcessedDecreasesOnlyByReset ==
    [][/\ processed' # processed =>
             \/ \E t \in Threads : StepService(t) /\ processed' = processed + 1
             \/ \E t \in Threads : ResetProcessed(t) /\ processed' = 0
       /\ (\A t \in Threads : ~ ResetProcessed(t)) => processed' >= processed]_vars

\* a reset has set processed to 0 on a queue that had serviced requests
C14_Witness ==
    \E t \in Threads :
        /\ pc[t] = "reset_load"
        /\ processed = 0
        /\ latencies # <<>>

\* s is an initial part of r
IsPrefix(s, r) == Len(s) <= Len(r) /\ s = SubSeq(r, 1, Len(s))

\* C15 (as claimed): over any sequence of operations a latency sample once
\* recorded is never removed or changed and new samples are only added at
\* the end.
C15_LatenciesAppendOnly == [][IsPrefix(latencies, latencies')]_vars

\* C15 (amended): over enqueue, step and get_state the latencies only grow at
\* the end, by the latency of the request that step has just taken from the
\* head of the backlog; reset empties them.
C15_LatenciesAppendOnlyUntilReset ==
    [][/\ latencies' # latencies =>
             \/ \E t \in Threads :
                   /\ StepService(t)
                   /\ latencies' =
                          Append(latencies, Max2(0, loc[t].now - Head(queue).timestamp))
             \/ \E t \in Threads : ResetLatencies(t) /\ latencies' = <<>>
       /\ (\A t \in Threads : ~ ResetLatencies(t)) =>
             IsPrefix(latencies, latencies')]_vars

\* a reset has emptied the latencies of a queue that had serviced requests
C15_Witness ==
    \E t \in Threads :
        /\ pc[t] = "reset_dropped"
        /\ latencies = <<>>
        /\ served # <<>>

\* the fields of the object a caller can tell apart, and their values after
\* __init__
ObjState ==
    [queue |-> queue, processed |-> processed, current_load |-> current_load,
     latencies |-> latencies, dropped |-> dropped, lock |-> lock]
FreshState ==
    [queue |-> <<>>, processed |-> 0, current_load |-> FracOf(0),
     latencies |-> <<>>, dropped |-> 0, lock |-> NoThread]

\* C16: a constructed queue is in the fresh state; when reset returns the
\* queue is in the fresh state again, with the capacity and the thresholds it
\* was constructed with (no operation changes them), so the calls that
\* follow act on the same state as on a fresh queue.
C16_ResetGivesFreshQueue ==
    /\ ObjState = FreshState
    /\ [][/\ UNCHANGED cfgvars
           /\ \A t \in Threads : ResetDropped(t) => ObjState' = FreshState]_vars

\* reset has returned on a queue that had serviced a request
C16_Witness ==
    /\ ObjState = FreshState
    /\ served # <<>>
    /\ \A t \in Threads : pc[t] = "idle"

\* ------------------------------------------------- claims on run_scenario
LastOr(l, x) == IF l = <<>> THEN x ELSE l[Len(l)]
RunDone == drv.pc = "done"
InRun == drv.pc \notin {"call", "off"}

\* step on the locked fields, statement by statement, gives what StepOn
\* gives in one go
StepOnAgrees ==
    \A t \in Threads :
        Returning(t) =>
            LET r == StepOn(loc[t].pre_queue, loc[t].pre_processed,
                            loc[t].pre_latencies, capacity, loc[t].dt, loc[t].now)
            IN  /\ r.queue = queue
                /\ r.processed = processed
                /\ r.latencies = latencies
                /\ r.current_load = current_load
                /\ r.stats = StepStats(t)

\* C17: the second run of a scenario, with the same cfg and seed and with
\* timestamps and step times of its own, records the times, loads and queue
\* lengths the first run recorded, entry by entry, and returns the same
\* three series.
C17_SeriesReproducible ==
    (runNo = 2 /\ InRun) =>
        /\ IsPrefix(drv.times, first.times)
        /\ IsPrefix(drv.loads, first.loads)
        /\ IsPrefix(drv.qlens, first.qlens)
        /\ RunDone =>
               /\ DriverResult.times = first.times
               /\ DriverResult.loads = first.loads
               /\ DriverResult.qlens = first.qlens

\* the second run has returned two steps with a load, and its latencies
\* are not those of the first run
C17_Witness ==
    /\ runNo = 2
    /\ RunDone
    /\ Len(drv.times) = 2
    /\ \E k \in 1..Len(drv.loads) : drv.loads[k] # FracOf(0)
    /\ latencies # first.latencies

\* what is left of a run: iterations of the for loop, statements of the
\* iteration, arrivals to enqueue
RunRank ==
    <<IF drv.steps > drv.i THEN drv.steps - drv.i ELSE 0,
      CASE drv.pc = "for" -> 4
        [] drv.pc = "enqueue" -> 3
        [] drv.pc = "get_state" -> 2
        [] drv.pc = "append" -> 1
        [] OTHER -> 0,
      drv.left>>
\* the order of the for loop: an iteration less; or as many iterations and a
\* statement further; or the same statement and an arrival less
RankLess(a, b) ==
    \/ a[1] < b[1] /\ a[2] = 4 /\ b[2] = 1
    \/ a[1] = b[1] /\ a[2] < b[2]
    \/ a[1] = b[1] /\ a[2] = b[2] /\ a[3] < b[3]
\* a run that has not returned can take its next statement
RunNotStuck ==
    /\ drv.pc = "call" => ENABLED DriverStart
    /\ drv.pc = "for" =>
           ENABLED ((\E raw \in Raw : DriverArrivals(raw)) \/ DriverReturn)
    /\ (drv.pc = "enqueue" /\ drv.left > 0) =>
           ENABLED (\E raw \in Raw, timestamp \in Times : DriverEnqueue(raw, timestamp))
    /\ (drv.pc = "enqueue" /\ drv.left = 0) =>
           (Exhausted(drv.left) /\ ValidDt(scenario.dt))   \* step does not raise
    /\ drv.pc = "get_state" => ENABLED DriverGetState
    /\ drv.pc = "append" => ENABLED DriverAppend

C19_OrderWithinStep ==
    /\ drv.pc \in {"get_state", "append"} =>
           /\ drv.left = 0
           /\ drv.stats.processed + drv.stats.queue_len =
                  LastOr(drv.qlens, 0) + drv.arrivals
           /\ drv.stats.queue_len = Len(queue)
           /\ drv.stats.current_load_percent = current_load
           /\ Len(drv.times) = drv.i
    /\ (drv.pc = "for" /\ drv.i > 0) =>
           /\ Len(drv.loads) = drv.i /\ Len(drv.qlens) = drv.i
           /\ drv.loads[drv.i] = drv.stats.current_load_percent
           /\ drv.qlens[drv.i] = drv.stats.queue_len
           /\ drv.qlens[drv.i] = Len(queue)
           /\ drv.times[drv.i] = drv.t

\* the second step has serviced a request that arrived in it and has left
\* another; both are recorded
C19_Witness ==
    /\ drv.pc = "for"
    /\ drv.i = 2
    /\ drv.qlens[1] = 0
    /\ drv.arrivals = 2
    /\ drv.stats.processed = 1
    /\ drv.qlens[2] = 1
    /\ drv.loads[2] # FracOf(0)

\* C20: the latencies a run returns are the latencies of the queue when the
\* run ends: one for every request serviced over the run, that is as many as
\* the arrivals of all steps less the queue length recorded last.
C20_LatenciesComplete ==
    RunDone =>
        /\ DriverResult.latencies = latencies
        /\ Len(DriverResult.latencies) = processed
        /\ Len(DriverResult.latencies) = drv.total - LastOr(drv.qlens, 0)

\* a run has returned two latencies and has left a request in the queue
C20_Witness ==
    /\ RunDone
    /\ Len(latencies) = 2
    /\ drv.total = 3
    /\ LastOr(drv.qlens, 0) = 1

\* ---------------------------------------------------------------- C21
KnownMode(self) == self.attack_mode \in {"constant", "poisson", "burst"}
LoopStarted == atk.pc \notin {"idle", "begin", "off"}

\* C21: an unrecognized traffic mode is rejected when the Attacker is
\* constructed, not when traffic is first generated: no Attacker holds a mode
\* other than constant, poisson or burst, and no attack loop starts with such
\* a mode.
C21_UnknownModeRejectedAtConstruction ==
    /\ attacker # NoAttacker => KnownMode(attacker)
    /\ LoopStarted => KnownMode(attacker)

\* ---------------------------------------------------------------- C22
\* floor(n / d) and n / d without its fractional part, d > 0
Floor(n, d) == n \div d
Truncated(n, d) == IF n >= 0 THEN n \div d ELSE 0 - ((0 - n) \div d)

Baseline(self) == self.request_rate * self.num_attackers
InHighPhase(elapsed_time) == elapsed_time % 10 < 5
\* the counts generate_traffic has returned in burst mode, with their instants:
\* the direct call and the events of the loop
BurstCounts ==
    IF attacker = NoAttacker \/ attacker.attack_mode # "burst" THEN {}
    ELSE (IF returned.called /\ returned.raised = "none"
          THEN {<<returned.elapsed_time, returned.count>>} ELSE {})
         \cup {<<attacker.traffic_log[i].elapsed_time,
                 attacker.traffic_log[i].num_requests>> :
                   i \in 1..Len(attacker.traffic_log)}

\* C22 (as claimed): in burst mode with burst_period = 5, for every
\* elapsed_time >= 0 the count is floor(rate * attackers * burst_intensity)
\* when elapsed_time mod 10 < 5 and floor(rate * attackers * 0.2) otherwise.
C22_BurstCountsAreFloors ==
    \A c \in BurstCounts :
        c[2] = IF InHighPhase(c[1])
               THEN Floor(Baseline(attacker) * attacker.burst_intensity, 1)
               ELSE Floor(Baseline(attacker) * 2, 10)

\* C22 (amended): in burst mode the count is rate * attackers *
\* burst_intensity without its fractional part when elapsed_time mod 10 < 5
\* and rate * attackers * 0.2 without its fractional part otherwise, which
\* is the floor when rate * attackers >= 0; the instants 4, 10 and 14 are in
\* the high phase and 5, 7, 9 and 15 in the low one.
C22_BurstCountsAreTruncated ==
    \A c \in BurstCounts :
        LET high == Truncated(Baseline(attacker) * attacker.burst_intensity, 1)
            low == Truncated(Baseline(attacker) * 2, 10)
        IN  /\ c[2] = IF InHighPhase(c[1]) THEN high ELSE low
            /\ c[1] \in {4, 10, 14} => c[2] = high
            /\ c[1] \in {5, 7, 9, 15} => c[2] = low
            /\ Baseline(attacker) >= 0 =>
                  low = Floor(Baseline(attacker) * 2, 10)

\* a burst attack has logged the same count at 4 s and at 10 s, and a call at
\* 7 s has returned another count
C22_Witness ==
    /\ attacker # NoAttacker
    /\ attacker.attack_mode = "burst"
    /\ Len(attacker.traffic_log) >= 2
    /\ attacker.traffic_log[1].elapsed_time = 4
    /\ attacker.traffic_log[2].elapsed_time = 10
    /\ attacker.traffic_log[1].num_requests = attacker.traffic_log[2].num_requests
    /\ returned.called
    /\ returned.elapsed_time = 7
    /\ returned.count # attacker.traffic_log[1].num_requests

\* ---------------------------------------------------------------- C23
\* the length of an iteration of the attack loop is its pause, 1/10 s
\* (line 173): ten iterations make one second
IterationsPerSecond == 10
\* a mean has been handed to the Poisson sampler by the driver, by the loop
DriverSampled == drv.pc \in {"enqueue", "get_state", "append"}
AttackSampled == atk.pc # "off" /\ atk.sampled

\* C23 (as claimed): in poisson mode every traffic generator samples with a
\* mean scaled by the step length, rate * attackers * dt, both in the driver
\* and in Attacker.generate_poisson_traffic.
C23_MeanScaledByStep ==
    /\ DriverSampled =>
          drv.lam = scenario.rate * scenario.attackers * scenario.dt
    /\ AttackSampled =>
          atk.lam * IterationsPerSecond
              = attacker.request_rate * attacker.num_attackers
    /\ returned.sampled =>
          returned.lam * IterationsPerSecond
              = attacker.request_rate * attacker.num_attackers

\* C23 (amended): the driver samples with the mean rate * attackers * dt;
\* Attacker.generate_poisson_traffic samples with the mean rate * attackers,
\* whatever the time between two calls, and only in poisson mode.
C23_MeanScaledByStepInDriver ==
    /\ DriverSampled =>
          drv.lam = scenario.rate * scenario.attackers * scenario.dt
    /\ AttackSampled =>
          /\ atk.lam = attacker.request_rate * attacker.num_attackers
          /\ attacker.attack_mode = "poisson"
    /\ returned.sampled =>
          /\ returned.lam = attacker.request_rate * attacker.num_attackers
          /\ attacker.attack_mode = "poisson"
    /\ attacker # NoAttacker /\ attacker.attack_mode = "poisson" =>
          /\ atk.pc \in {"log", "callback"} => atk.sampled
          /\ returned.called => returned.sampled

\* a poisson attack has logged two events at different instants, both sampled
\* with the mean 2 of two attackers at one request per second
C23_Witness ==
    /\ AttackSampled
    /\ atk.lam = 2
    /\ Len(attacker.traffic_log) >= 2
    /\ attacker.traffic_log[1].elapsed_time < attacker.traffic_log[2].elapsed_time
    /\ attacker.traffic_log[1].num_requests # attacker.traffic_log[2].num_requests

\* ---------------------------------------------------------------- C24
\* the counts generate_traffic has returned, with their instants: the direct
\* call and the events of the loop
Counts ==
    IF attacker = NoAttacker THEN {}
    ELSE (IF returned.called /\ returned.raised = "none"
          THEN {<<returned.elapsed_time, returned.count>>} ELSE {})
         \cup {<<attacker.traffic_log[i].elapsed_time,
                 attacker.traffic_log[i].num_requests>> :
                   i \in 1..Len(attacker.traffic_log)}
\* a step that is a call of generate_traffic, direct or from the loop
GenerateTrafficStep ==
    \/ returned' # returned
    \/ atk.pc = "generate" /\ atk'.pc # "generate"
Deterministic ==
    /\ attacker.attack_mode \in {"constant", "burst"} =>
          \A c, d \in Counts : c[1] = d[1] => c[2] = d[2]
    /\ attacker.attack_mode = "constant" =>
          \A c, d \in Counts : c[2] = d[2]

\* C24 (as claimed): generate_traffic returns a non-negative integer and
\* modifies no state of the Attacker, and in constant and burst modes two
\* calls with the same elapsed time return the same count, the constant mode
\* returning the same count for every elapsed time.
C24_GenerateTrafficPure ==
    /\ [](attacker # NoAttacker =>
            /\ \A c \in Counts : c[2] \in Nat
            /\ Deterministic)
    /\ [][GenerateTrafficStep => attacker' = attacker]_vars

\* C24 (amended): generate_traffic returns an integer, or raises ValueError,
\* and modifies no state of the Attacker; the integer is non-negative when
\* request_rate * num_attackers >= 0 and, in burst mode, burst_intensity >= 0;
\* in constant and burst modes two calls with the same elapsed time return
\* the same count, the constant mode returning the same count for every
\* elapsed time.
C24_GenerateTrafficPureSigned ==
    /\ [](attacker # NoAttacker =>
            /\ \A c \in Counts :
                  /\ c[2] \in Int
                  /\ (/\ Baseline(attacker) >= 0
                      /\ attacker.attack_mode = "burst" =>
                            attacker.burst_intensity >= 0)
                        => c[2] >= 0
            /\ returned.called => returned.raised \in {"none", "ValueError"}
            /\ Deterministic)
    /\ [][GenerateTrafficStep => attacker' = attacker]_vars

\* a constant attack in progress has logged two events at different instants
\* and a direct call at a third instant has returned the count 6
C24_Witness ==
    /\ attacker # NoAttacker
    /\ attacker.attack_mode = "constant"
    /\ attacker.is_attacking
    /\ Len(attacker.traffic_log) = 2
    /\ attacker.traffic_log[1].elapsed_time # attacker.traffic_log[2].elapsed_time
    /\ returned.called
    /\ returned.elapsed_time = 15
    /\ returned.count = 6

\* ---------------------------------------------------------------- C25
\* the arguments the callback should have got: one pair per logged event,
\* the last event not yet when the loop is about to call
Events ==
    [i \in 1..Len(attacker.traffic_log) |->
        <<attacker.traffic_log[i].elapsed_time,
          attacker.traffic_log[i].num_requests>>]
Reported ==
    IF atk.pc = "callback" THEN SubSeq(Events, 1, Len(Events) - 1) ELSE Events
LoopEnded == atk.pc \in {"finally", "done"}

\* C25: the callback is purely observational: start_attack invokes it exactly
\* once per traffic-generation event with that event's (elapsed_time,
\* num_requests), and whatever the callback does (returning late, not
\* returning, raising) the loop keeps generating and logging traffic until
\* the duration elapses or stop_attack is called.
C25_CallbackOnlyObserves ==
    atk.pc # "off" =>
        /\ atk.callback # "none" /\ LoopStarted => atk.calls = Reported
        /\ atk.pc # "in_callback"
        /\ LoopEnded /\ atk.error # "generate" =>
              \/ atk.elapsed_time >= attacker.duration
              \/ atk.stopped

\* ---------------------------------------------------------------- C30
\* C30: start_attack ends with is_attacking = False, whether the duration
\* elapsed, stop_attack was called or an error occurred; and after a
\* stop_attack call made at any moment after start_attack was invoked the
\* loop begins no further iteration: it performs at most the one in progress.
C30_StopEndsLoop ==
    atk.pc # "off" =>
        /\ atk.pc = "done" => ~ attacker.is_attacking
        /\ ~ atk.late

\* ---------------------------------------------------------------- C26
\* C26: every step snapshot is consistent with the queue state the step
\* leaves: queue_len is the backlog length after the step, queued_cost the
\* sum of the costs left in the backlog, processed the increase of
\* processed_count during the step, and processed_cost + queued_cost the
\* total cost that was in the backlog when the step began.
C26_SnapshotConsistent ==
    \A t \in Threads :
        Returning(t) =>
            LET stats == StepStats(t)
            IN  /\ stats.queue_len = Len(queue)
                /\ stats.queue_len + stats.processed = Len(loc[t].pre_queue)
                /\ stats.queued_cost = SumCost(queue)
                /\ stats.processed = processed - loc[t].pre_processed
                /\ stats.processed_cost + stats.queued_cost
                       = SumCost(loc[t].pre_queue)
                /\ IsSuffix(queue, loc[t].pre_queue)

\* a step services one request of two and leaves a request of another cost
C26_Witness ==
    \E t \in Threads :
        /\ Returning(t)
        /\ Len(loc[t].pre_queue) = 2
        /\ StepStats(t).processed = 1
        /\ StepStats(t).queue_len = 1
        /\ StepStats(t).processed_cost # StepStats(t).queued_cost
        /\ StepStats(t).queued_cost # 0

\* ---------------------------------------------------------------- C27
\* C27: after any sequence of enqueue, step, get_state and reset calls, the
\* number of recorded latency samples equals processed_count: each serviced
\* request contributes exactly one sample; and every sample is >= 0.
C27_OneSamplePerServiced ==
    /\ lock = NoThread => Len(latencies) = processed
    /\ ~ Resetting => Len(latencies) = processed
    /\ \A i \in 1..Len(latencies) : latencies[i] >= 0
    /\ \A t \in Threads :
          InStep(t) =>
              Len(latencies) - Len(loc[t].pre_latencies)
                  = loc[t].processed_count

\* two requests have been serviced, with the latencies 0 and 1, and no call
\* is in progress
C27_Witness ==
    /\ lock = NoThread
    /\ \A t \in Threads : pc[t] = "idle"
    /\ processed = 2
    /\ latencies = <<0, 1>>
    /\ queue = <<>>

\* ---------------------------------------------------------------- C28
\* the request in front costs more than a step of d seconds can take, and
\* the step in progress, if there is one, is a step of d seconds that found
\* it in front
Starved(d) ==
    /\ queue # <<>>
    /\ Head(queue).cost > capacity * d
    /\ ~ Resetting
    /\ \A t \in Threads :
          InStep(t) => loc[t].dt = d /\ loc[t].processed_count = 0
\* a call other than enqueue, get_state and step(d) begins
OtherCallBegins(d) ==
    \E t \in Threads :
        /\ pc[t] = "idle"
        /\ \/ pc'[t] = "reset_clear"
           \/ pc'[t] = "step_loop" /\ loc'[t].dt # d

\* C28: head-of-line starvation: if the request at the head of the backlog
\* has cost greater than capacity_per_second * dt, no sequence of enqueue and
\* step(dt) calls with that same dt services it or anything behind it:
\* processed_count stays constant and the backlog keeps its head and does not
\* get shorter, until reset.
C28_HeadOfLineStarvation ==
    [][\A d \in Dts :
          (Starved(d) /\ ~ OtherCallBegins(d)) =>
              /\ Starved(d)'
              /\ processed' = processed
              /\ Len(queue') >= Len(queue)
              /\ Head(queue') = Head(queue)
              /\ served' = served]_vars

\* a step of 1 s returns without servicing anything although the request
\* behind the one in front would have fitted
C28_Witness ==
    \E t \in Threads :
        /\ Returning(t)
        /\ Starved(1)
        /\ Len(queue) = 2
        /\ queue[2].cost > 0
        /\ queue[2].cost <= capacity
        /\ StepStats(t).processed = 0

\* ---------------------------------------------------------------- C29
\* C29: within one driver run every step uses the same parameters: the dt of
\* the step count, of each simulated time i * dt, of each arrival mean and of
\* each step(dt) are all equal, even when another simulation is started from
\* the interface while the run is in progress.
C29_OneDtPerRun ==
    gui # NoGui => \A t \in GuiThreads : Cardinality(gui[t].used) <= 1

\* ---------------------------------------------------------------- C31
MitmEnded(t) == mitm[t].pc = "done"
BothRestored(t) ==
    mitm[t].restores = << <<mitm[t].ip_cible, mitm[t].ip_passerelle>>,
                          <<mitm[t].ip_passerelle, mitm[t].ip_cible>> >>

\* C31: a run of run_mitm that has performed at least one poison operation
\* and has ended, because the flag was cleared or because a poison operation
\* failed, has invoked restore for both directions; and a running loop
\* whose flag was cleared leaves the loop at its next check of the flag.
C31_RestoredAndStopped ==
    mitm # NoMitm =>
        \A t \in MitmThreads :
            /\ (MitmEnded(t) /\ mitm[t].poisons # <<>>) => BothRestored(t)
            /\ ~ mitm[t].missed

\* ---------------------------------------------------------------- C32
\* the most recent min(n, 100) of the n samples of lat
MostRecent(lat) ==
    LET k == Min2(Len(lat), 100)
    IN  [i \in 1..k |-> lat[Len(lat) - k + i]]

\* a whole call of step has just returned
SnapshotTaken == snap # NoSnap

\* C32: the avg_latency of the dict that step returns is absent exactly when
\* latencies is empty, which is when no request was serviced since
\* construction or the last reset, and otherwise is the mean of the most
\* recent min(n, 100) samples, also when the step itself serviced nothing.
C32_AvgLatencyOverWindow ==
    SnapshotTaken =>
        LET a == snap.stats.avg_latency
            w == MostRecent(latencies)
        IN  /\ a.present <=> latencies # <<>>
            /\ (latencies = <<>>) <=> (processed = 0)
            /\ a.present =>
                  /\ a.d > 0
                  /\ a.n * Len(w) = a.d * SumSeq(w)
                  /\ GCD(Abs(a.n), a.d) = 1

\* a step that serviced nothing has returned the average 0 of the last 100
\* of 101 samples, the oldest of which is 6
C32_Witness ==
    /\ SnapshotTaken
    /\ snap.stats.processed = 0
    /\ Len(latencies) = 101
    /\ latencies[1] = 6
    /\ snap.stats.avg_latency = [present |-> TRUE, n |-> 0, d |-> 1]

====
